---- MODULE Spec2Model ----
(***************************************************************************)
(* cfai: the AI action extractor (src/ai/analyzer.rs) and the risk-gated   *)
(* executor (src/ai/executor.rs).                                          *)
(*                                                                         *)
(* execute_actions is an async function; its suspension points are the     *)
(* three dialoguer prompts and the awaited client call.  The model has one *)
(* action per suspension point; everything the function does between two   *)
(* suspension points belongs to the action that resumes it.                *)
(***************************************************************************)
EXTENDS Integers, Sequences, FiniteSets, Bags, TLC

(***************************************************************************)
(* serde_json::Value.  One record shape for every value so that values of  *)
(* different JSON types can be compared: k is the JSON type, the other     *)
(* fields carry the payload of that type and a default otherwise.          *)
(* "absent" is not a JSON value: it marks a field a document does not have. *)
(* "frac" is a number with a fractional part, "neg" a negative integer.     *)
(***************************************************************************)
\* A 16-bit word.  TLC's integers are 32 bits wide, so a JSON number that
\* fits a u64 is held as its four 16-bit words, lowest first.
Word == 65536
Zero64 == <<0, 0, 0, 0>>
\* The words of a natural number below 2^31.
Words(x) == <<x % Word, x \div Word, 0, 0>>

JAbsent == [k |-> "absent", b |-> FALSE, n |-> Zero64, s |-> "", a |-> <<>>]
JNull == [k |-> "null", b |-> FALSE, n |-> Zero64, s |-> "", a |-> <<>>]
JBool(x) == [k |-> "bool", b |-> x, n |-> Zero64, s |-> "", a |-> <<>>]
\* A non-negative integer given by its words.
JBig(w) == [k |-> "num", b |-> FALSE, n |-> w, s |-> "", a |-> <<>>]
\* A negative integer (its magnitude does not matter to the executor).
JNeg == [k |-> "neg", b |-> FALSE, n |-> Zero64, s |-> "", a |-> <<>>]
JNum(x) == IF x >= 0 THEN JBig(Words(x)) ELSE JNeg
JFrac == [k |-> "frac", b |-> FALSE, n |-> Zero64, s |-> "", a |-> <<>>]
JStr(x) == [k |-> "str", b |-> FALSE, n |-> Zero64, s |-> x, a |-> <<>>]
JArr(x) == [k |-> "arr", b |-> FALSE, n |-> Zero64, s |-> "", a |-> x]
\* An object as the value of a member (the executor never looks inside one).
JObj == [k |-> "obj", b |-> FALSE, n |-> Zero64, s |-> "", a |-> <<>>]

\* The params value of an action: a JSON value that is an object (k = "obj",
\* o its set of <<key, value>> members), or some other JSON value (k is its
\* type, o is empty: the executor reads params only through its keys).
P(f) == [k |-> "obj", o |-> {<<key, f[key]>> : key \in DOMAIN f}]
NoKeys == [key \in {} |-> JAbsent]
PNull == [k |-> "null", o |-> {}]
HasKey(params, key) == params.k = "obj" /\ \E m \in params.o : m[1] = key
Member(params, key) == (CHOOSE m \in params.o : m[1] = key)[2]

\* Option<T>: v is meaningful only when some is TRUE.
Some(x) == [some |-> TRUE, v |-> x]
None(default) == [some |-> FALSE, v |-> default]

\* params[key]: serde_json's Index gives Null for a key that is missing and
\* for a value that is not an object.
Index(params, key) ==
    IF HasKey(params, key) THEN Member(params, key) ELSE JNull
\* params.get(key)
Get(params, key) ==
    IF HasKey(params, key) THEN Some(Member(params, key)) ELSE None(JNull)
as_str(v) == IF v.k = "str" THEN Some(v.s) ELSE None("")
as_bool(v) == IF v.k = "bool" THEN Some(v.b) ELSE None(FALSE)
\* as_u64 is None for a negative or fractional number.
as_u64(v) == IF v.k = "num" THEN Some(v.n) ELSE None(Zero64)
as_array(v) == IF v.k = "arr" THEN Some(v.a) ELSE None(<<>>)

\* A slip: a value out of range is clamped to the largest u32.
as_u32_saturating(v) ==
    IF v[3] # 0 \/ v[4] # 0 THEN <<Word - 1, Word - 1>> ELSE <<v[1], v[2]>>
\* `v as u32`, `v as u16`: a cast keeps the low bits.
as_u32(v) == <<v[1], v[2]>>
as_u16(v) == <<v[1]>>

\* str::to_lowercase on the strings the model uses.
to_lowercase(s) ==
    CASE s \in {"TRUE", "True"} -> "true"
      [] s \in {"ON", "On"} -> "on"
      [] s \in {"YES", "Yes"} -> "yes"
      [] s \in {"FALSE", "False"} -> "false"
      [] s \in {"OFF", "Off"} -> "off"
      [] s \in {"NO", "No"} -> "no"
      [] s = "MAYBE" -> "maybe"
      [] s = "yEs" -> "yes"
      [] s = "oFF" -> "off"
      [] OTHER -> s

(***************************************************************************)
(* Result<T>: ok, the value, and the error text of an Err.                 *)
(***************************************************************************)
Ok(x) == [ok |-> TRUE, v |-> x, err |-> ""]
Err(default, msg) == [ok |-> FALSE, v |-> default, err |-> msg]

\* A slip: the string is compared as it is written, not lowercased.
params_to_bool_asWritten(params, key) ==
    LET v == Index(params, key) IN
    IF as_bool(v).some THEN Ok(as_bool(v).v)
    ELSE IF as_str(v).some THEN
        LET s == as_str(v).v IN
        IF s \in {"true", "on", "yes", "1"} THEN Ok(TRUE)
        ELSE IF s \in {"false", "off", "no", "0"} THEN Ok(FALSE)
        ELSE Err(FALSE, "cannot parse value")
    ELSE Ok(TRUE)
\* A reading that would accept booleans and strings only.
params_to_bool_strict(params, key) ==
    LET v == Index(params, key) IN
    IF as_bool(v).some THEN Ok(as_bool(v).v)
    ELSE IF as_str(v).some THEN
        LET s == to_lowercase(as_str(v).v) IN
        IF s \in {"true", "on", "yes", "1"} THEN Ok(TRUE)
        ELSE IF s \in {"false", "off", "no", "0"} THEN Ok(FALSE)
        ELSE Err(FALSE, "cannot parse value")
    ELSE IF HasKey(params, key) THEN Err(FALSE, "cannot parse value")
    ELSE Ok(TRUE)
\* params_to_bool
params_to_bool(params, key) ==
    LET v == Index(params, key) IN
    IF as_bool(v).some THEN Ok(as_bool(v).v)
    ELSE IF as_str(v).some THEN
        LET s == to_lowercase(as_str(v).v) IN
        IF s \in {"true", "on", "yes", "1"} THEN Ok(TRUE)
        ELSE IF s \in {"false", "off", "no", "0"} THEN Ok(FALSE)
        ELSE Err(FALSE, "cannot parse value")
    ELSE Ok(TRUE)

RECURSIVE FilterStrings(_)
FilterStrings(arr) ==
    IF arr = <<>> THEN <<>>
    ELSE IF as_str(Head(arr)).some
         THEN <<as_str(Head(arr)).v>> \o FilterStrings(Tail(arr))
         ELSE FilterStrings(Tail(arr))

\* json_array_to_strings
json_array_to_strings(value) ==
    IF as_array(value).some THEN Some(FilterStrings(as_array(value).v))
    ELSE None(<<>>)

(***************************************************************************)
(* One call of a CfClient method: the method, and its arguments after the  *)
(* zone id.  Unused argument fields hold defaults.                         *)
(***************************************************************************)
NoRequest ==
    [record_type |-> "", name |-> "", content |-> "", ttl |-> None(<<>>),
     proxied |-> None(FALSE), priority |-> None(<<>>), comment |-> None(""),
     tags |-> None(<<>>)]
NoCall ==
    [op |-> "none", s1 |-> "", s2 |-> None(""), b |-> FALSE, val |-> JNull,
     req |-> NoRequest, list |-> <<>>]
CallS(op, s) == [NoCall EXCEPT !.op = op, !.s1 = s]
CallB(op, b) == [NoCall EXCEPT !.op = op, !.b = b]

\* What execute_single_action does up to its one client call: either the
\* validated call it is about to await, or the Err it returns without one.
Invalid(msg) == Err(NoCall, msg)

\* execute_ssl_action
execute_ssl_action(params) ==
    LET setting == as_str(Index(params, "setting"))
        value == as_str(Index(params, "value"))
        enable == params_to_bool(params, "enable")
    IN
    IF ~setting.some THEN Invalid("ssl_set missing setting")
    ELSE CASE setting.v = "ssl_mode" ->
                IF ~value.some THEN Invalid("missing value")
                ELSE Ok(CallS("set_ssl_mode", value.v))
           [] setting.v = "always_https" ->
                IF ~enable.ok THEN Invalid(enable.err)
                ELSE Ok(CallB("set_always_https", enable.v))
           [] setting.v = "min_tls_version" ->
                IF ~value.some THEN Invalid("missing value")
                ELSE Ok(CallS("set_ssl_min_tls", value.v))
           [] setting.v = "opportunistic_encryption" ->
                IF ~enable.ok THEN Invalid(enable.err)
                ELSE Ok(CallB("set_opportunistic_encryption", enable.v))
           [] setting.v = "automatic_https_rewrites" ->
                IF ~enable.ok THEN Invalid(enable.err)
                ELSE Ok(CallB("set_automatic_https_rewrites", enable.v))
           [] OTHER -> Invalid("unknown ssl setting")

\* execute_setting_update
execute_setting_update(params) ==
    LET setting_id == as_str(Index(params, "setting_id"))
        value == Get(params, "value")
    IN
    IF ~setting_id.some THEN Invalid("setting_update missing setting_id")
    ELSE IF ~value.some THEN Invalid("setting_update missing value")
    ELSE Ok([NoCall EXCEPT !.op = "update_zone_setting",
                           !.s1 = setting_id.v, !.val = value.v])

\* DnsRecordRequest { .. } as execute_dns_create and execute_dns_update
\* build it.
DnsRecordRequest(params, record_type, name, content) ==
    LET ttl == as_u64(Index(params, "ttl"))
        priority == as_u64(Index(params, "priority"))
    IN
    [record_type |-> record_type, name |-> name, content |-> content,
     ttl |-> IF ttl.some THEN Some(as_u32(ttl.v)) ELSE None(<<>>),
     proxied |-> as_bool(Index(params, "proxied")),
     priority |-> IF priority.some THEN Some(as_u16(priority.v))
                  ELSE None(<<>>),
     comment |-> as_str(Index(params, "comment")),
     tags |-> None(<<>>)]

\* A slip: an optional member of the wrong shape is refused.
execute_dns_create_strict(params) ==
    LET record_type == as_str(Index(params, "type"))
        name == as_str(Index(params, "name"))
        content == as_str(Index(params, "content"))
    IN
    IF ~record_type.some THEN Invalid("dns_create missing type")
    ELSE IF ~name.some THEN Invalid("dns_create missing name")
    ELSE IF ~content.some THEN Invalid("dns_create missing content")
    ELSE IF HasKey(params, "ttl") /\ ~as_u64(Index(params, "ttl")).some
    THEN Invalid("dns_create ttl is not a number")
    ELSE Ok([NoCall EXCEPT
                !.op = "create_dns_record",
                !.req = DnsRecordRequest(params, record_type.v, name.v,
                                         content.v)])
\* execute_dns_create
execute_dns_create(params) ==
    LET record_type == as_str(Index(params, "type"))
        name == as_str(Index(params, "name"))
        content == as_str(Index(params, "content"))
    IN
    IF ~record_type.some THEN Invalid("dns_create missing type")
    ELSE IF ~name.some THEN Invalid("dns_create missing name")
    ELSE IF ~content.some THEN Invalid("dns_create missing content")
    ELSE Ok([NoCall EXCEPT
                !.op = "create_dns_record",
                !.req = DnsRecordRequest(params, record_type.v, name.v,
                                         content.v)])

\* execute_dns_update
execute_dns_update(params) ==
    LET record_id == as_str(Index(params, "record_id"))
        record_type == as_str(Index(params, "type"))
        name == as_str(Index(params, "name"))
        content == as_str(Index(params, "content"))
    IN
    IF ~record_id.some THEN Invalid("dns_update missing record_id")
    ELSE IF ~record_type.some THEN Invalid("dns_update missing type")
    ELSE IF ~name.some THEN Invalid("dns_update missing name")
    ELSE IF ~content.some THEN Invalid("dns_update missing content")
    ELSE Ok([NoCall EXCEPT
                !.op = "update_dns_record", !.s1 = record_id.v,
                !.req = DnsRecordRequest(params, record_type.v, name.v,
                                         content.v)])

\* execute_dns_delete
execute_dns_delete(params) ==
    LET record_id == as_str(Index(params, "record_id")) IN
    IF ~record_id.some THEN Invalid("dns_delete missing record_id")
    ELSE Ok(CallS("delete_dns_record", record_id.v))

\* The purge_urls, purge_tags and purge_hosts arms of execute_cache_purge.
PurgeList(params, key, op) ==
    LET list == json_array_to_strings(Index(params, key)) IN
    IF ~list.some THEN Invalid("cache_purge missing list")
    ELSE Ok([NoCall EXCEPT !.op = op, !.list = list.v])

\* A slip: `type` is required like the keys of the other actions.
execute_cache_purge_strict(params) ==
    LET type == as_str(Index(params, "type")) IN
    IF ~type.some THEN Invalid("cache_purge missing type")
    ELSE CASE type.v = "purge_all" -> Ok(CallS("purge_all_cache", ""))
           [] type.v = "purge_urls" ->
                 PurgeList(params, "urls", "purge_cache_by_urls")
           [] type.v = "purge_tags" ->
                 PurgeList(params, "tags", "purge_cache_by_tags")
           [] type.v = "purge_hosts" ->
                 PurgeList(params, "hosts", "purge_cache_by_hosts")
           [] OTHER -> Invalid("unknown cache purge type")
\* execute_cache_purge
execute_cache_purge(params) ==
    LET type == as_str(Index(params, "type"))
        purge_type == IF type.some THEN type.v ELSE "purge_all"
    IN
    CASE purge_type = "purge_all" -> Ok(CallS("purge_all_cache", ""))
      [] purge_type = "purge_urls" ->
            PurgeList(params, "urls", "purge_cache_by_urls")
      [] purge_type = "purge_tags" ->
            PurgeList(params, "tags", "purge_cache_by_tags")
      [] purge_type = "purge_hosts" ->
            PurgeList(params, "hosts", "purge_cache_by_hosts")
      [] OTHER -> Invalid("unknown cache purge type")

\* The block_ip and whitelist_ip arms of execute_firewall_rule.
IpRule(params, op, msg) ==
    LET ip == as_str(Index(params, "ip"))
        note == as_str(Index(params, "note"))
    IN
    IF ~ip.some THEN Invalid(msg)
    ELSE Ok([NoCall EXCEPT !.op = op, !.s1 = ip.v, !.s2 = note])

\* execute_firewall_rule
execute_firewall_rule(params) ==
    LET rule_type == as_str(Index(params, "type"))
        level == as_str(Index(params, "level"))
        enable == params_to_bool(params, "enable")
    IN
    IF ~rule_type.some THEN Invalid("firewall_rule missing type")
    ELSE CASE rule_type.v = "block_ip" ->
                IpRule(params, "block_ip", "block_ip missing ip")
           [] rule_type.v = "whitelist_ip" ->
                IpRule(params, "whitelist_ip", "whitelist_ip missing ip")
           [] rule_type.v = "security_level" ->
                IF ~level.some THEN Invalid("security_level missing level")
                ELSE Ok(CallS("set_security_level", level.v))
           [] rule_type.v = "under_attack" ->
                IF ~enable.ok THEN Invalid(enable.err)
                ELSE Ok(CallB("set_under_attack_mode", enable.v))
           [] rule_type.v = "browser_check" ->
                IF ~enable.ok THEN Invalid(enable.err)
                ELSE Ok(CallB("set_browser_check", enable.v))
           [] OTHER -> Invalid("unknown firewall rule type")

\* A plausible slip: the unknown-type arm falls through to a generic
\* setting update instead of bailing.
execute_single_action_fallthrough(action) ==
    CASE action.action_type = "ssl_set" -> execute_ssl_action(action.params)
      [] action.action_type = "setting_update" ->
            execute_setting_update(action.params)
      [] action.action_type = "dns_create" ->
            execute_dns_create(action.params)
      [] action.action_type = "dns_update" ->
            execute_dns_update(action.params)
      [] action.action_type = "dns_delete" ->
            execute_dns_delete(action.params)
      [] action.action_type = "cache_purge" ->
            execute_cache_purge(action.params)
      [] action.action_type = "firewall_rule" ->
            execute_firewall_rule(action.params)
      [] OTHER -> Ok([NoCall EXCEPT !.op = "update_zone_setting",
                                    !.s1 = action.action_type])

\* execute_single_action, up to the client call it selects.
execute_single_action(action) ==
    CASE action.action_type = "ssl_set" -> execute_ssl_action(action.params)
      [] action.action_type = "setting_update" ->
            execute_setting_update(action.params)
      [] action.action_type = "dns_create" ->
            execute_dns_create(action.params)
      [] action.action_type = "dns_update" ->
            execute_dns_update(action.params)
      [] action.action_type = "dns_delete" ->
            execute_dns_delete(action.params)
      [] action.action_type = "cache_purge" ->
            execute_cache_purge(action.params)
      [] action.action_type = "firewall_rule" ->
            execute_firewall_rule(action.params)
      [] OTHER -> Invalid("unknown action type")

(***************************************************************************)
(* SuggestedAction values the executor is run on.                          *)
(***************************************************************************)
SuggestedAction(action_type, description, params, risk) ==
    [action_type |-> action_type, description |-> description,
     params |-> params, risk |-> risk]

Catalogue ==
    {SuggestedAction("dns_create", "add www",
        P([type |-> JStr("A"), name |-> JStr("www"),
           content |-> JStr("1.2.3.4")]), "low"),
     SuggestedAction("ssl_set", "force https",
        P([setting |-> JStr("always_https")]), "medium"),
     SuggestedAction("dns_delete", "drop old record",
        P([record_id |-> JStr("rec1")]), "high"),
     SuggestedAction("firewall_rule", "block the scanner",
        P([type |-> JStr("block_ip")]), "medium"),
     SuggestedAction("page_rule_create", "redirect apex", P(NoKeys), "high"),
     SuggestedAction("cache_purge", "purge everything",
        P([type |-> JStr("purge_all")]), "High")}

\* The longest action list the model runs.
MaxActions == 3
Plans == UNION {[1..n -> Catalogue] : n \in 0..MaxActions}

(***************************************************************************)
(* State.                                                                  *)
(*   actions        the &[SuggestedAction] execute_actions borrows         *)
(*   pc             where execute_actions is suspended                     *)
(*   i              the loop index (0-based, as enumerate() gives it)      *)
(*   total, success_count, fail_count   the locals of lines 52-54 (0       *)
(*                  before they are declared)                              *)
(*   inflight       the client call being awaited, NoCall when none        *)
(*   calls          every client call issued, in order, with its index     *)
(*   log            what happened, in order: lines printed, prompts        *)
(*                  answered, calls started and ended                      *)
(*   result         the Result<()> returned, "none" while running          *)
(*   content        the text extract_actions is applied to                 *)
(*   extracted      what extract_actions returned                          *)
(*   xpc            "text" before extract_actions ran, "extracted" after,  *)
(*                  "off" when the run is not about extraction             *)
(*   auto_apply     the --auto-apply flag of `ai auto-config`              *)
(***************************************************************************)
VARIABLES actions, pc, i, total, success_count, fail_count, inflight, calls,
          log, result, content, extracted, xpc, auto_apply,
          loading, current_page, selected_zone, zones, zones_loaded,
          dns_records, ai_messages, tasks, rx, spawned, drained,
          command, domain

execVars ==
    <<actions, pc, i, total, success_count, fail_count, inflight, calls, log,
      result>>
extractVars == <<content, extracted, xpc, auto_apply>>
\* gui/state.rs: the fields of AppState the desktop front end's results
\* touch, the tasks spawned on the runtime, and the channel's queue.
guiVars ==
    <<loading, current_page, selected_zone, zones, zones_loaded, dns_records,
      ai_messages, tasks, rx, spawned, drained>>
\* cli/commands/ai.rs: the subcommand of `cfai ai` that runs, and whether a
\* domain came with it.
cliVars == <<command, domain>>
vars == <<execVars, extractVars, guiVars, cliVars>>

\* gui/state.rs:288-345, AppState::new: nothing loaded, nothing in flight.
GuiNew ==
    /\ loading = FALSE
    /\ current_page = "Dashboard"
    /\ selected_zone = "none"
    /\ zones = <<>>
    /\ zones_loaded = FALSE
    /\ dns_records = "none"
    /\ ai_messages = <<>>
    /\ tasks = EmptyBag
    /\ rx = <<>>
    /\ spawned = 0
    /\ drained = 0

\* A log entry.  idx is the action's index, -1 for an entry about the run.
Ev(ev, idx, ans) == [ev |-> ev, idx |-> idx, ans |-> ans]

\* Confirm::interact(): Ok(true), Ok(false), or an io error.
Answers == {"yes", "no", "err"}

\* The locals of execute_actions as one record.
St ==
    [pc |-> pc, i |-> i, total |-> total, success_count |-> success_count,
     fail_count |-> fail_count, inflight |-> inflight, calls |-> calls,
     log |-> log, result |-> result]

\* A slip: the risk token of the action at hand is normalised in place.
Apply_normalising(st) ==
    /\ pc' = st.pc
    /\ i' = st.i
    /\ total' = st.total
    /\ success_count' = st.success_count
    /\ fail_count' = st.fail_count
    /\ inflight' = st.inflight
    /\ calls' = st.calls
    /\ log' = st.log
    /\ result' = st.result
    /\ actions' = [k \in DOMAIN actions |->
                     IF k = i + 1 /\ actions[k].risk = "High"
                     THEN [actions[k] EXCEPT !.risk = "high"]
                     ELSE actions[k]]
    /\ UNCHANGED <<extractVars, guiVars, cliVars>>
Apply(st) ==
    /\ pc' = st.pc
    /\ i' = st.i
    /\ total' = st.total
    /\ success_count' = st.success_count
    /\ fail_count' = st.fail_count
    /\ inflight' = st.inflight
    /\ calls' = st.calls
    /\ log' = st.log
    /\ result' = st.result
    /\ UNCHANGED <<actions, extractVars, guiVars, cliVars>>

\* `?` on a failed interact(): the error leaves execute_actions at once.
PromptFailed(st, prompt) ==
    [st EXCEPT !.log = Append(@, Ev(prompt, st.i, "err")),
               !.pc = "done", !.result = "Err"]

\* Lines 104-113: the summary line and Ok(()).
LoopExit(st) ==
    [st EXCEPT !.log = Append(@, Ev("summary", -1, "-")),
               !.pc = "done", !.result = "Ok"]

\* Line 90: another action follows the one that failed.
MoreRemain_inclusive(idx, n) == idx + 1 <= n
MoreRemain(idx, n) == idx + 1 < n

\* Lines 86-100, up to the continuation prompt: the Err arm of the match.
\* why is "validation" (no call was made) or "remote".
Failed_uncounted(st, why) ==
    LET st1 == [st EXCEPT !.log = Append(@, Ev("error", st.i, why))]
    IN IF MoreRemain(st.i, st.total)
       THEN [st1 EXCEPT !.pc = "continue_confirm"]
       ELSE LoopExit(st1)
Failed(st, why) ==
    LET st1 == [st EXCEPT !.fail_count = @ + 1,
                          !.log = Append(@, Ev("error", st.i, why))]
    IN IF MoreRemain(st.i, st.total)
       THEN [st1 EXCEPT !.pc = "continue_confirm"]
       ELSE LoopExit(st1)

\* Line 81: execute_single_action(..).await, up to its client call.
Dispatch(st) ==
    LET r == execute_single_action(actions[st.i + 1]) IN
    IF r.ok
    THEN [st EXCEPT !.pc = "await", !.inflight = r.v,
                    !.calls = Append(@, [idx |-> st.i, call |-> r.v]),
                    !.log = Append(@, Ev("call_start", st.i, "-"))]
    ELSE Failed(st, "validation")

\* Line 66
IsHighRisk_anycase(action) == action.risk \in {"high", "High", "HIGH"}
IsHighRisk_never(action) == FALSE
IsHighRisk(action) == action.risk = "high"

\* A slip: the loop stops one action short.
LoopHead_short(st) ==
    IF st.i >= st.total \/ (st.i + 1 >= st.total /\ st.total > 1)
    THEN LoopExit(st)
    ELSE LET st1 == [st EXCEPT !.log = Append(@, Ev("banner", st.i, "-"))]
         IN IF IsHighRisk(actions[st.i + 1])
            THEN [st1 EXCEPT !.pc = "high_confirm"]
            ELSE Dispatch(st1)
\* Lines 56-81: the head of the loop at index st.i, up to the next
\* suspension point.
LoopHead(st) ==
    IF st.i >= st.total THEN LoopExit(st)
    ELSE LET st1 == [st EXCEPT !.log = Append(@, Ev("banner", st.i, "-"))]
         IN IF IsHighRisk(actions[st.i + 1])
            THEN [st1 EXCEPT !.pc = "high_confirm"]
            ELSE Dispatch(st1)

Advance(st) == LoopHead([st EXCEPT !.i = @ + 1])

(***************************************************************************)
(* What execute_actions does when a suspension point resumes it.           *)
(***************************************************************************)
\* Lines 42-54, then the loop from index 0.
\* A slip: the answer is read with unwrap_or(true) and the decline ignored.
OnBatchAnswer_ignored(st, ans) ==
    LoopHead([st EXCEPT !.log = Append(@, Ev("prompt_batch", -1, ans)),
                        !.total = Len(actions), !.success_count = 0,
                        !.fail_count = 0, !.i = 0])
OnBatchAnswer(st, ans) ==
    CASE ans = "err" -> PromptFailed([st EXCEPT !.i = -1], "prompt_batch")
      [] ans = "no" ->
            [st EXCEPT !.log = @ \o <<Ev("prompt_batch", -1, "no"),
                                      Ev("cancelled", -1, "-")>>,
                       !.pc = "done", !.result = "Ok"]
      [] ans = "yes" ->
            LoopHead([st EXCEPT
                        !.log = Append(@, Ev("prompt_batch", -1, "yes")),
                        !.total = Len(actions), !.success_count = 0,
                        !.fail_count = 0, !.i = 0])

\* Lines 67-79.
\* A slip: a declined high-risk action is counted as a failure.
OnHighAnswer_declineFails(st, ans) ==
    CASE ans = "err" -> PromptFailed(st, "prompt_high")
      [] ans = "no" ->
            Failed([st EXCEPT !.log = Append(@, Ev("prompt_high", st.i, "no"))],
                   "declined")
      [] ans = "yes" ->
            Dispatch([st EXCEPT
                        !.log = Append(@, Ev("prompt_high", st.i, "yes"))])
\* A slip: interact().unwrap_or(false), an io error read as a decline.
OnHighAnswer_errIsNo(st, ans) ==
    CASE ans \in {"err", "no"} ->
            Advance([st EXCEPT !.log = @ \o <<Ev("prompt_high", st.i, ans),
                                              Ev("skipped", st.i, "-")>>])
      [] ans = "yes" ->
            Dispatch([st EXCEPT
                        !.log = Append(@, Ev("prompt_high", st.i, "yes"))])
OnHighAnswer(st, ans) ==
    CASE ans = "err" -> PromptFailed(st, "prompt_high")
      [] ans = "no" ->
            Advance([st EXCEPT !.log = @ \o <<Ev("prompt_high", st.i, "no"),
                                              Ev("skipped", st.i, "-")>>])
      [] ans = "yes" ->
            Dispatch([st EXCEPT
                        !.log = Append(@, Ev("prompt_high", st.i, "yes"))])

\* Lines 81-88: the awaited client call returned.
\* A slip: the loop index is not advanced after a success.
OnRemoteReturn_again(st, ok) ==
    LET st1 == [st EXCEPT
                  !.inflight = NoCall,
                  !.log = Append(@, Ev("call_end", st.i,
                                       IF ok THEN "ok" ELSE "fail"))]
    IN IF ok
       THEN LoopHead([st1 EXCEPT !.success_count = @ + 1,
                                 !.log = Append(@, Ev("success", st.i, "-"))])
       ELSE Failed(st1, "remote")
\* A slip: a call that failed is issued once more before it counts.
OnRemoteReturn_retry(st, ok) ==
    LET st1 == [st EXCEPT
                  !.inflight = NoCall,
                  !.log = Append(@, Ev("call_end", st.i,
                                       IF ok THEN "ok" ELSE "fail"))]
        tried == Cardinality({c \in DOMAIN st.calls : st.calls[c].idx = st.i})
    IN IF ok
       THEN Advance([st1 EXCEPT !.success_count = @ + 1,
                                !.log = Append(@, Ev("success", st.i, "-"))])
       ELSE IF tried < 2
            THEN [st1 EXCEPT
                    !.pc = "await", !.inflight = st.inflight,
                    !.calls = Append(@, [idx |-> st.i, call |-> st.inflight]),
                    !.log = Append(@, Ev("call_start", st.i, "-"))]
            ELSE Failed(st1, "remote")
OnRemoteReturn(st, ok) ==
    LET st1 == [st EXCEPT
                  !.inflight = NoCall,
                  !.log = Append(@, Ev("call_end", st.i,
                                       IF ok THEN "ok" ELSE "fail"))]
    IN IF ok
       THEN Advance([st1 EXCEPT !.success_count = @ + 1,
                                !.log = Append(@, Ev("success", st.i, "-"))])
       ELSE Failed(st1, "remote")

\* Lines 91-98.
\* A slip: the answer is not looked at, the loop always goes on.
OnContinueAnswer_goesOn(st, ans) ==
    CASE ans = "err" -> PromptFailed(st, "prompt_continue")
      [] OTHER ->
            Advance([st EXCEPT
                        !.log = Append(@, Ev("prompt_continue", st.i, ans))])
OnContinueAnswer(st, ans) ==
    CASE ans = "err" -> PromptFailed(st, "prompt_continue")
      [] ans = "no" ->
            LoopExit([st EXCEPT
                        !.log = @ \o <<Ev("prompt_continue", st.i, "no"),
                                       Ev("aborted", -1, "-")>>])
      [] ans = "yes" ->
            Advance([st EXCEPT
                        !.log = Append(@, Ev("prompt_continue", st.i, "yes"))])

(***************************************************************************)
(* Actions of execute_actions.                                             *)
(***************************************************************************)
\* A slip: the empty list is not returned on, the confirmation is asked
\* for it too.
ExecuteStart_asksAlways ==
    /\ pc = "start"
    /\ Apply([St EXCEPT !.pc = "batch_confirm",
                        !.log = Append(@, Ev("list", -1, "-"))])
\* Lines 16-45: the empty list returns at once; otherwise the list is
\* printed and the batch confirmation asked.
ExecuteStart ==
    /\ pc = "start"
    /\ IF actions = <<>>
       THEN Apply([St EXCEPT !.pc = "done", !.result = "Ok"])
       ELSE Apply([St EXCEPT !.pc = "batch_confirm",
                             !.log = Append(@, Ev("list", -1, "-"))])

BatchConfirm ==
    /\ pc = "batch_confirm"
    /\ \E ans \in Answers : Apply(OnBatchAnswer(St, ans))

HighConfirm ==
    /\ pc = "high_confirm"
    /\ \E ans \in Answers : Apply(OnHighAnswer(St, ans))

RemoteReturn ==
    /\ pc = "await"
    /\ \E ok \in BOOLEAN : Apply(OnRemoteReturn(St, ok))

ContinueConfirm ==
    /\ pc = "continue_confirm"
    /\ \E ans \in Answers : Apply(OnContinueAnswer(St, ans))

NoExtraction == None(<<>>)

Init ==
    /\ actions \in Plans
    /\ pc = "start"
    /\ i = 0
    /\ total = 0
    /\ success_count = 0
    /\ fail_count = 0
    /\ inflight = NoCall
    /\ calls = <<>>
    /\ log = <<>>
    /\ result = "none"
    /\ content = <<>>
    /\ extracted = NoExtraction
    /\ xpc = "off"
    /\ auto_apply = FALSE
    /\ GuiNew
    /\ command = "none"
    /\ domain = FALSE

Next ==
    \/ ExecuteStart
    \/ BatchConfirm
    \/ HighConfirm
    \/ RemoteReturn
    \/ ContinueConfirm

Spec == Init /\ [][Next]_vars

(***************************************************************************)
(* execute_actions on short lists whose first action varies in its params: *)
(* the same function, run on the inputs that tell the arms of the          *)
(* execute_* functions apart.                                              *)
(***************************************************************************)
\* params with one more member (none for an absent value).
WithMember(params, key, v) ==
    IF v = JAbsent THEN params
    ELSE [params EXCEPT !.o = @ \cup {<<key, v>>}]

\* The values of an `enable` member.
EnableStrings ==
    {"true", "TRUE", "True", "on", "ON", "On", "yes", "YES", "Yes", "yEs",
     "1", "false", "FALSE", "False", "off", "OFF", "Off", "oFF", "no", "NO",
     "No", "0", "maybe", "MAYBE", "", "2", "enabled"}
EnableValues ==
    {JAbsent, JNull, JBool(TRUE), JBool(FALSE), JNum(0), JNum(1),
     JArr(<<>>), JArr(<<JBool(FALSE)>>), JObj}
        \cup {JStr(str) : str \in EnableStrings}
EnableActions ==
    {SuggestedAction("ssl_set", "force https",
        WithMember(P([setting |-> JStr("always_https")]), "enable", v),
        "low") : v \in EnableValues}
    \cup
    {SuggestedAction("firewall_rule", "under attack mode",
        WithMember(P([type |-> JStr("under_attack")]), "enable", v),
        "medium") : v \in EnableValues}

\* cache_purge actions: without `type`, with a `type` that is no string,
\* with params that is no object, with each known type and its list or
\* without it, and with an unknown type.
PurgeParams ==
    {P(NoKeys), PNull,
     P([urls |-> JArr(<<JStr("https://a.example/x")>>)]),
     P([type |-> JNum(1)]),
     P([type |-> JNull]),
     P([type |-> JStr("purge_all")]),
     P([type |-> JStr("purge_urls"),
        urls |-> JArr(<<JStr("https://a.example/x"), JNum(7)>>)]),
     P([type |-> JStr("purge_urls")]),
     P([type |-> JStr("purge_tags"), tags |-> JArr(<<JStr("t1")>>)]),
     P([type |-> JStr("purge_hosts"), hosts |-> JStr("a.example")]),
     P([type |-> JStr("purge_everything")]),
     P([type |-> JStr("PURGE_ALL")])}
PurgeActions ==
    {SuggestedAction("cache_purge", "purge cache", params, "low") :
        params \in PurgeParams}

\* dns_create and dns_update actions with their required keys and every
\* pairing of a ttl and a priority: absent, in range, beyond the range of
\* the field (2^32, 2^32 + 1 and 2^48 + 300 for ttl; 2^16 + 10 and 2^32 + 10
\* for priority), a numeric string, negative, fractional.
TtlValues ==
    {JAbsent, JNum(300), JNum(Word + 300), JBig(<<0, 0, 1, 0>>),
     JBig(<<1, 0, 1, 0>>), JBig(<<300, 0, 0, 1>>), JStr("300"), JNeg, JFrac}
PriorityValues ==
    {JAbsent, JNum(10), JNum(Word + 10), JBig(<<10, 0, 1, 0>>), JStr("10"),
     JNeg}
DnsParams ==
    {WithMember(WithMember(P([type |-> JStr("MX"), name |-> JStr("mail"),
                              content |-> JStr("mx.example")]),
                           "ttl", ttl),
                "priority", priority) :
        ttl \in TtlValues, priority \in PriorityValues}
DnsActions ==
    {SuggestedAction("dns_create", "add mail record", params, "low") :
        params \in DnsParams}
    \cup
    {SuggestedAction("dns_update", "change mail record",
                     WithMember(params, "record_id", JStr("rec1")), "medium") :
        params \in DnsParams}

DispatchCatalogue == EnableActions \cup PurgeActions \cup DnsActions
\* The action that follows: a high-risk one.
Follower ==
    SuggestedAction("dns_delete", "drop old record",
                    P([record_id |-> JStr("rec1")]), "high")
DispatchPlans ==
    {<<a>> : a \in DispatchCatalogue}
        \cup {<<a, Follower>> : a \in DispatchCatalogue}

InitDispatch ==
    /\ actions \in DispatchPlans
    /\ pc = "start"
    /\ i = 0
    /\ total = 0
    /\ success_count = 0
    /\ fail_count = 0
    /\ inflight = NoCall
    /\ calls = <<>>
    /\ log = <<>>
    /\ result = "none"
    /\ content = <<>>
    /\ extracted = NoExtraction
    /\ xpc = "off"
    /\ auto_apply = FALSE
    /\ GuiNew
    /\ command = "none"
    /\ domain = FALSE

SpecDispatch == InitDispatch /\ [][Next]_vars

(***************************************************************************)
(* Reading the run.                                                        *)
(***************************************************************************)
N == Len(actions)
Indices == 0..(N - 1)
Logged(e) == \E p \in DOMAIN log : log[p] = e
\* The Outcome of the action at index k, read off what the run did to it:
\* its success line, its error line, or neither (it was not attempted).
Outcome(k) ==
    IF Logged(Ev("success", k, "-")) THEN "succeeded"
    ELSE IF \E p \in DOMAIN log : log[p].ev = "error" /\ log[p].idx = k
         THEN "failed"
         ELSE "skipped"
Called(k) == \E c \in DOMAIN calls : calls[c].idx = k
Finished == pc = "done" /\ result = "Ok"
BatchDeclined == Logged(Ev("prompt_batch", -1, "no"))
BatchAccepted == Logged(Ev("prompt_batch", -1, "yes"))
IsPrompt(e) == e.ev \in {"prompt_batch", "prompt_high", "prompt_continue"}

\* C1: once the batch confirmation of a non-empty list is declined, the run
\* is over with Ok, no client call was issued or is in flight, no action has
\* a success or an error (every Outcome is skipped) and the success count is
\* 0.
C1_BatchDeclineIssuesNothing ==
    BatchDeclined =>
        /\ N > 0
        /\ Finished
        /\ calls = <<>>
        /\ inflight = NoCall
        /\ \A k \in Indices : Outcome(k) = "skipped"
        /\ success_count = 0
C1_Witness == BatchDeclined /\ N >= 2 /\ pc = "done"

\* Every call issued has its call_start entry in the log.
C2_CallsAreLogged ==
    \A c \in DOMAIN calls : Logged(Ev("call_start", calls[c].idx, "-"))
\* A call for a "high" action comes after an accepted batch prompt and,
\* later, an accepted prompt for that action.
C2_HighRiskNeedsOwnYes ==
    \A q \in DOMAIN log :
        (log[q].ev = "call_start" /\ actions[log[q].idx + 1].risk = "high") =>
            \E b, p \in 1..(q - 1) :
                /\ b < p
                /\ log[b] = Ev("prompt_batch", -1, "yes")
                /\ log[p] = Ev("prompt_high", log[q].idx, "yes")
\* C2: a client call for an action whose risk is "high" is only ever started
\* after the batch confirmation was accepted and, later, that action's own
\* confirmation was asked and accepted.
C2_HighRiskGate == C2_HighRiskNeedsOwnYes /\ C2_CallsAreLogged
C2_Witness ==
    \E c \in DOMAIN calls :
        /\ actions[calls[c].idx + 1].risk = "high"
        /\ Logged(Ev("call_end", calls[c].idx, "ok"))

\* C3: when the action at index k failed and the continuation prompt was
\* declined, the run is over with Ok, nothing was printed, asked or called
\* for an index above k, total is the number of actions, the Outcome at k is
\* failed and the Outcomes at k+1..N-1 are all skipped.
C3_DeclinedContinueAborts ==
    \A p \in DOMAIN log :
        (log[p].ev = "prompt_continue" /\ log[p].ans = "no") =>
            LET k == log[p].idx IN
            /\ Finished
            /\ p > 1 /\ log[p - 1].ev \in {"error", "call_end"}
            /\ Outcome(k) = "failed"
            /\ k + 1 < N
            /\ \A q \in DOMAIN log : log[q].idx <= k
            /\ \A c \in DOMAIN calls : calls[c].idx <= k
            /\ total = N
            /\ \A j \in (k + 1)..(N - 1) : Outcome(j) = "skipped"
            /\ Cardinality({j \in Indices : j > k /\ Outcome(j) = "skipped"})
                 = N - 1 - k
C3_Witness ==
    /\ N = 3
    /\ Logged(Ev("prompt_continue", 0, "no"))
    /\ Logged(Ev("call_end", 0, "fail"))
    /\ pc = "done"

\* C4: a high-risk action declined at its own prompt is skipped, not failed:
\* its skip line is printed, no call is made for it, no error is recorded
\* and no continuation prompt is asked for it, and the run goes straight on
\* to the next action (or to the summary when it was the last).
C4_DeclinedHighRiskIsSkipped ==
    \A p \in DOMAIN log :
        log[p] = Ev("prompt_high", log[p].idx, "no") =>
            LET k == log[p].idx IN
            /\ Len(log) >= p + 2
            /\ log[p + 1] = Ev("skipped", k, "-")
            /\ Outcome(k) = "skipped"
            /\ ~Called(k)
            /\ ~Logged(Ev("call_start", k, "-"))
            /\ \A q \in DOMAIN log :
                   log[q].ev = "prompt_continue" => log[q].idx # k
            /\ log[p + 2] = IF k + 1 < N THEN Ev("banner", k + 1, "-")
                                         ELSE Ev("summary", -1, "-")
C4_Witness ==
    /\ Logged(Ev("prompt_high", 0, "no"))
    /\ Logged(Ev("success", 1, "-"))
    /\ fail_count = 0
    /\ pc = "done"

\* C5: a prompt that fails as an io error ends the run with that error: it
\* is the last thing that happens, the result is Err, no call is in flight,
\* and an Err result never has any other cause.
C5_PromptErrorPropagates ==
    /\ \A p \in DOMAIN log :
           (IsPrompt(log[p]) /\ log[p].ans = "err") =>
               /\ p = Len(log)
               /\ pc = "done"
               /\ result = "Err"
               /\ inflight = NoCall
    /\ result = "Err" =>
           /\ log # <<>>
           /\ IsPrompt(log[Len(log)])
           /\ log[Len(log)].ans = "err"
C5_Witness == result = "Err" /\ Logged(Ev("prompt_high", 1, "err"))
                 /\ calls # <<>>

IsOutcomeLine(e) == e.ev \in {"success", "error", "skipped"}
\* C6: calls are started in strictly ascending index order, a call is ended
\* before anything else happens (at most one is in flight, and it is the
\* last one started), and success, error and skip lines appear in ascending
\* index order.
C6_OneAtATimeInOrder ==
    /\ \A m, n \in DOMAIN calls : m < n => calls[m].idx < calls[n].idx
    /\ \A p \in DOMAIN log :
           log[p].ev = "call_start" =>
               IF p = Len(log)
               THEN pc = "await" /\ inflight # NoCall /\ i = log[p].idx
               ELSE log[p + 1].ev = "call_end" /\ log[p + 1].idx = log[p].idx
    /\ pc # "await" => inflight = NoCall
    /\ \A p, q \in DOMAIN log :
           (p < q /\ IsOutcomeLine(log[p]) /\ IsOutcomeLine(log[q])) =>
               log[p].idx < log[q].idx
C6_Witness ==
    /\ Len(calls) >= 2
    /\ pc = "await"
    /\ Logged(Ev("call_end", calls[1].idx, "ok"))

\* The number of actions with a skip line, and with a given Outcome.
RenderedSkipped == Cardinality({k \in Indices : Logged(Ev("skipped", k, "-"))})
NumWith(outcome) == Cardinality({k \in Indices : Outcome(k) = outcome})
\* C7 as claimed: whenever a run on a non-empty list finishes without a
\* prompt error, a summary is printed whose counts add up, the skipped ones
\* included, to total, the number of actions; and every action has its own
\* success, error or skip line.
C7_ReportsCountsOfEach ==
    (Finished /\ N > 0) =>
        /\ Logged(Ev("summary", -1, "-"))
        /\ total = N
        /\ success_count + fail_count + RenderedSkipped = total
        /\ \A k \in Indices :
               \E p \in DOMAIN log : IsOutcomeLine(log[p]) /\ log[p].idx = k

\* C7 as amended: a run that finishes after the batch confirmation was
\* accepted ends with one summary line giving success, fail and total, where
\* total is the number of actions, success the number of actions that
\* succeeded and fail the number that failed, so that the actions that were
\* declined or aborted are total - success - fail; a run that finishes
\* without the batch confirmation accepted prints no summary.
C7_SummaryCounts ==
    /\ (Finished /\ BatchAccepted) =>
           /\ log[Len(log)] = Ev("summary", -1, "-")
           /\ Cardinality({p \in DOMAIN log : log[p].ev = "summary"}) = 1
           /\ total = N
           /\ success_count = NumWith("succeeded")
           /\ fail_count = NumWith("failed")
           /\ success_count + fail_count + NumWith("skipped") = total
    /\ (Finished /\ ~BatchAccepted) => ~Logged(Ev("summary", -1, "-"))
C7_Witness ==
    /\ Finished
    /\ total = 3
    /\ success_count = 1
    /\ fail_count = 1
    /\ Logged(Ev("skipped", 0, "-"))

(***************************************************************************)
(* extract_actions (analyzer.rs).                                          *)
(*                                                                         *)
(* The response text is a sequence of tokens: "prose" (text that is not    *)
(* JSON), "ws" (whitespace), "fence_json" (the seven characters ```json),  *)
(* "fence" (``` not followed by json) and "json" (the text of one          *)
(* well-formed JSON document, doc, holding no ```).                        *)
(*                                                                         *)
(* A document is given by what serde reads of it: top is its JSON type;    *)
(* for an object, actions and explanation are its members of those names   *)
(* (k = "absent" when it has none).  An element of the actions array is    *)
(* given by its JSON type k and, for an object, its members type,          *)
(* description, params and risk.                                           *)
(***************************************************************************)
NoParams == [k |-> "absent", o |-> {}]
Item(type, description, params, risk) ==
    [k |-> "obj", type |-> type, description |-> description,
     params |-> params, risk |-> risk]
NotAnObjectItem ==
    [k |-> "str", type |-> JAbsent, description |-> JAbsent,
     params |-> NoParams, risk |-> JAbsent]
\* The actions member: absent, null, an array of items, or another type.
ActionsAbsent == [k |-> "absent", items |-> <<>>]
ActionsNull == [k |-> "null", items |-> <<>>]
ActionsArr(items) == [k |-> "arr", items |-> items]
ActionsStr == [k |-> "str", items |-> <<>>]
JDoc(top, acts, explanation) ==
    [top |-> top, actions |-> acts, explanation |-> explanation]
NoDoc == JDoc("none", ActionsAbsent, JAbsent)
Tok(t) == [t |-> t, doc |-> NoDoc]
TokJson(doc) == [t |-> "json", doc |-> doc]

\* A slip: an empty description is refused as a missing one is.
DeserializeAction_nonEmpty(item) ==
    IF /\ item.k = "obj"
       /\ as_str(item.type).some
       /\ as_str(item.description).some
       /\ item.description.s # ""
       /\ item.params.k # "absent"
       /\ as_str(item.risk).some
    THEN Ok([action_type |-> item.type.s, description |-> item.description.s,
             params |-> item.params, risk |-> item.risk.s])
    ELSE Err([action_type |-> "", description |-> "", params |-> PNull,
              risk |-> ""], "invalid action")
\* <SuggestedAction as Deserialize>: every member must be there, the three
\* strings must be JSON strings, params may be any JSON value.
NoAction == SuggestedAction("", "", PNull, "")
DeserializeAction(item) ==
    IF /\ item.k = "obj"
       /\ as_str(item.type).some
       /\ as_str(item.description).some
       /\ item.params.k # "absent"
       /\ as_str(item.risk).some
    THEN Ok(SuggestedAction(item.type.s, item.description.s, item.params,
                            item.risk.s))
    ELSE Err(NoAction, "invalid action")

RECURSIVE DeserializeActions(_)
\* <Vec<SuggestedAction> as Deserialize>: the first bad element fails all.
DeserializeActions(items) ==
    IF items = <<>> THEN Ok(<<>>)
    ELSE LET first == DeserializeAction(Head(items))
             rest == DeserializeActions(Tail(items))
         IN IF first.ok /\ rest.ok THEN Ok(<<first.v>> \o rest.v)
            ELSE Err(<<>>, "invalid action")

\* AiActionPlan { actions: Option<Vec<..>>, explanation: Option<String> }
AiActionPlan(acts, explanation) ==
    [actions |-> acts, explanation |-> explanation]
NoPlan == AiActionPlan(None(<<>>), None(""))

\* <AiActionPlan as Deserialize> on a JSON document that is not an array:
\* an Option member is None when absent or null.
DeserializePlan(doc) ==
    LET acts ==
            CASE doc.actions.k \in {"absent", "null"} -> Ok(None(<<>>))
              [] doc.actions.k = "arr" ->
                    LET r == DeserializeActions(doc.actions.items) IN
                    IF r.ok THEN Ok(Some(r.v)) ELSE Err(None(<<>>), r.err)
              [] OTHER -> Err(None(<<>>), "invalid type")
        explanation ==
            CASE doc.explanation.k \in {"absent", "null"} -> Ok(None(""))
              [] doc.explanation.k = "str" -> Ok(Some(doc.explanation.s))
              [] OTHER -> Err(None(""), "invalid type")
    IN IF doc.top = "obj" /\ acts.ok /\ explanation.ok
       THEN Ok(AiActionPlan(acts.v, explanation.v))
       ELSE Err(NoPlan, "invalid plan")

RECURSIVE trim_start(_)
trim_start(text) ==
    IF text # <<>> /\ Head(text).t = "ws" THEN trim_start(Tail(text))
    ELSE text
RECURSIVE trim_end(_)
trim_end(text) ==
    IF text # <<>> /\ text[Len(text)].t = "ws"
    THEN trim_end(SubSeq(text, 1, Len(text) - 1))
    ELSE text
\* str::trim
trim(text) == trim_end(trim_start(text))

\* serde_json::from_str::<AiActionPlan>: whitespace, one JSON document,
\* whitespace, and nothing else.
from_str(text) ==
    LET t == trim(text) IN
    IF Len(t) = 1 /\ t[1].t = "json" THEN DeserializePlan(t[1].doc)
    ELSE Err(NoPlan, "not json")

\* str::find: the position of the first token among kinds, 0 for None.
find(text, kinds) ==
    IF \E p \in DOMAIN text : text[p].t \in kinds
    THEN CHOOSE p \in DOMAIN text :
            /\ text[p].t \in kinds
            /\ \A q \in 1..(p - 1) : text[q].t \notin kinds
    ELSE 0

\* What "```json" and "```" match: ``` is also the start of ```json.
FenceJson == {"fence_json"}
AnyFence == {"fence", "fence_json"}

(***************************************************************************)
(* The slices of extract_actions are byte slices of a &str: they panic     *)
(* when an end lies beyond the text or inside a multi-byte character.      *)
(* Every token is ASCII except "prose", which stands for one three-byte    *)
(* character (the replies are mostly Chinese).                             *)
(***************************************************************************)
\* The bytes of "```json": the 7 of `start + 7`.
FenceJsonLen == 7
Width(tok) ==
    CASE tok.t = "fence_json" -> 7
      [] tok.t = "fence" -> 3
      [] tok.t = "prose" -> 3
      [] tok.t = "ws" -> 1
      [] tok.t = "json" -> 2
RECURSIVE ByteLen(_)
\* str::len
ByteLen(text) ==
    IF text = <<>> THEN 0 ELSE Width(Head(text)) + ByteLen(Tail(text))
\* The byte offset at which token p starts: what str::find returns for it.
ByteOffset(text, p) == ByteLen(SubSeq(text, 1, p - 1))
\* str::is_char_boundary
is_char_boundary(text, off) ==
    \/ off = ByteLen(text)
    \/ \E p \in DOMAIN text :
          /\ ByteOffset(text, p) <= off
          /\ off < ByteOffset(text, p) + Width(text[p])
          /\ (text[p].t = "prose" => off = ByteOffset(text, p))
\* A slip: the marker is taken to be one byte longer than it is.
extract_actions_panics_wide(text) ==
    LET start == find(text, FenceJson)
        from == ByteOffset(text, start) + FenceJsonLen + 1
    IN start # 0 /\ ~(from <= ByteLen(text) /\ is_char_boundary(text, from))
\* Whether extract_actions panics: `content[start + 7..]` does when start + 7
\* is not a character boundary of content.  (The end of the second slice is
\* where find found "```", which is one.)
extract_actions_panics(text) ==
    LET start == find(text, FenceJson)
        from == ByteOffset(text, start) + FenceJsonLen
    IN start # 0 /\ ~(from <= ByteLen(text) /\ is_char_boundary(text, from))

\* A slip: the fallback searches the text for any JSON document that is a
\* plan, where the code parses the whole text only.
extract_actions_scan(text) ==
    LET start == find(text, FenceJson)
        rest == SubSeq(text, start + 1, Len(text))
        end == find(rest, AnyFence)
        fenced == from_str(trim(SubSeq(rest, 1, end - 1)))
        hits == {p \in DOMAIN text : from_str(<<text[p]>>).ok}
    IN IF start # 0 /\ end # 0 /\ fenced.ok THEN fenced.v.actions
       ELSE IF hits # {}
            THEN from_str(<<text[CHOOSE p \in hits :
                                    \A q \in hits : p <= q]>>).v.actions
            ELSE None(<<>>)
\* A slip: when the fenced text does not parse, what follows the closing
\* fence is tried before the whole text.
extract_actions_rest(text) ==
    LET start == find(text, FenceJson)
        rest == SubSeq(text, start + 1, Len(text))
        end == find(rest, AnyFence)
        fenced == from_str(trim(SubSeq(rest, 1, end - 1)))
        after == from_str(SubSeq(rest, end + 1, Len(rest)))
        whole == from_str(text)
    IN IF start # 0 /\ end # 0 /\ fenced.ok THEN fenced.v.actions
       ELSE IF start # 0 /\ end # 0 /\ after.ok THEN after.v.actions
       ELSE IF whole.ok THEN whole.v.actions
       ELSE None(<<>>)
\* A slip: an unrecognized risk token is coerced to "medium" on the way out.
CoerceRisk(action) ==
    IF action.risk \in {"low", "medium", "high"} THEN action
    ELSE [action EXCEPT !.risk = "medium"]
extract_actions_coerced(text) ==
    LET start == find(text, FenceJson)
        rest == SubSeq(text, start + 1, Len(text))
        end == find(rest, AnyFence)
        fenced == from_str(trim(SubSeq(rest, 1, end - 1)))
        whole == from_str(text)
        Out(o) == IF o.some
                  THEN Some([j \in DOMAIN o.v |-> CoerceRisk(o.v[j])])
                  ELSE o
    IN IF start # 0 /\ end # 0 /\ fenced.ok THEN Out(fenced.v.actions)
       ELSE IF whole.ok THEN Out(whole.v.actions)
       ELSE None(<<>>)
\* AiAnalyzer::extract_actions.  rest is content[start + 7..], and the
\* fenced text is what lies before the first ``` of rest.
extract_actions(text) ==
    LET start == find(text, FenceJson)
        rest == SubSeq(text, start + 1, Len(text))
        end == find(rest, AnyFence)
        fenced == from_str(trim(SubSeq(rest, 1, end - 1)))
        whole == from_str(text)
    IN IF start # 0 /\ end # 0 /\ fenced.ok THEN fenced.v.actions
       ELSE IF whole.ok THEN whole.v.actions
       ELSE None(<<>>)

\* What extract_actions returns of the plan's explanation: its result is the
\* Option<Vec<SuggestedAction>> alone (`return plan.actions`).
ReturnedExplanation == None("")

(***************************************************************************)
(* The documents and texts the model extracts from.                        *)
(***************************************************************************)
DocCreate ==
    JDoc("obj",
         ActionsArr(<<Item(JStr("dns_create"), JStr("add www"),
                           P([type |-> JStr("A"), name |-> JStr("www"),
                              content |-> JStr("1.2.3.4")]),
                           JStr("low"))>>),
         JAbsent)
DocThree ==
    JDoc("obj",
         ActionsArr(<<Item(JStr("page_rule_create"), JStr("redirect apex"),
                           P(NoKeys), JStr("high")),
                      Item(JStr("firewall_rule"), JStr("block the scanner"),
                           P([type |-> JStr("block_ip")]),
                           JStr("Critical")),
                      Item(JStr("cache_purge"), JStr("purge everything"),
                           P([type |-> JStr("purge_all")]), JStr("low"))>>),
         JStr("three steps"))
DocTalk == JDoc("obj", ActionsAbsent, JStr("nothing to do"))
DocNoRisk ==
    JDoc("obj",
         ActionsArr(<<Item(JStr("dns_delete"), JStr("drop old record"),
                           P([record_id |-> JStr("rec1")]), JAbsent)>>),
         JAbsent)
DocArray == JDoc("arr", ActionsAbsent, JAbsent)
DocEmptyDescription ==
    JDoc("obj",
         ActionsArr(<<Item(JStr("ssl_set"), JStr(""),
                           P([setting |-> JStr("always_https")]),
                           JStr("medium")),
                      Item(JStr("dns_delete"), JStr("drop old record"),
                           P([record_id |-> JStr("rec1")]), JStr("high"))>>),
         JNull)
Docs ==
    {DocCreate, DocThree, DocTalk, DocNoRisk, DocArray, DocEmptyDescription}

Tokens ==
    {Tok("prose"), Tok("ws"), Tok("fence_json"), Tok("fence")}
        \cup {TokJson(d) : d \in Docs}
\* The longest text, in tokens.
MaxTextLen == 4
Texts == UNION {[1..n -> Tokens] : n \in 0..MaxTextLen}

(***************************************************************************)
(* The CLI's analyze path (cli/commands/ai.rs): the reply of the chat call *)
(* is extracted from, and a non-empty action list is offered for           *)
(* execution by prompt_execute_actions.                                    *)
(***************************************************************************)
\* analyzer.rs:146 and ai.rs:170-172, 269-277: up to the outer prompt.
AnalyzeReply ==
    /\ xpc = "text"
    /\ IF extract_actions_panics(content)
       THEN xpc' = "panicked" /\ UNCHANGED extracted
       ELSE /\ extracted' = extract_actions(content)
            /\ xpc' = IF extracted'.some /\ extracted'.v # <<>>
                      THEN "outer_confirm" ELSE "finished"
    /\ UNCHANGED <<execVars, content, auto_apply, guiVars, cliVars>>

\* An outer prompt whose decline would run the actions all the same.
OuterConfirm_entersAnyway ==
    /\ xpc = "outer_confirm"
    /\ \E ans \in Answers :
          CASE ans = "yes" ->
                  /\ xpc' = "executing"
                  /\ actions' = extracted.v
                  /\ pc' = "start"
            [] ans = "no" ->
                  /\ xpc' = "finished"
                  /\ actions' = extracted.v
                  /\ pc' = "start"
            [] ans = "err" ->
                  /\ xpc' = "failed"
                  /\ UNCHANGED <<actions, pc>>
    /\ UNCHANGED <<i, total, success_count, fail_count, inflight, calls, log,
                   result, content, extracted, auto_apply, guiVars, cliVars>>

\* ai.rs:274-281
OuterConfirm ==
    /\ xpc = "outer_confirm"
    /\ \E ans \in Answers :
          CASE ans = "yes" ->
                  /\ xpc' = "executing"
                  /\ actions' = extracted.v
                  /\ pc' = "start"
            [] ans = "no" ->
                  /\ xpc' = "finished"
                  /\ UNCHANGED <<actions, pc>>
            [] ans = "err" ->
                  /\ xpc' = "failed"
                  /\ UNCHANGED <<actions, pc>>
    /\ UNCHANGED <<i, total, success_count, fail_count, inflight, calls, log,
                   result, content, extracted, auto_apply, guiVars, cliVars>>

InitPipeline ==
    /\ content \in Texts
    /\ xpc = "text"
    /\ auto_apply = FALSE
    /\ GuiNew
    /\ command = "analyze"
    /\ domain = TRUE
    /\ extracted = NoExtraction
    /\ actions = <<>>
    /\ pc = "idle"
    /\ i = 0
    /\ total = 0
    /\ success_count = 0
    /\ fail_count = 0
    /\ inflight = NoCall
    /\ calls = <<>>
    /\ log = <<>>
    /\ result = "none"

NextPipeline ==
    \/ AnalyzeReply
    \/ OuterConfirm
    \/ ExecuteStart
    \/ BatchConfirm
    \/ HighConfirm
    \/ RemoteReturn
    \/ ContinueConfirm

SpecPipeline == InitPipeline /\ [][NextPipeline]_vars

(***************************************************************************)
(* The CLI's auto-config path with a --domain (ai.rs:221-257): the reply   *)
(* is extracted from, the zone is resolved, and a non-empty action list    *)
(* goes to execute_actions directly under --auto-apply, through            *)
(* prompt_execute_actions otherwise.                                       *)
(***************************************************************************)
\* ai.rs:236-247, up to the outer prompt or the entry of execute_actions.
AutoConfigReply ==
    /\ xpc = "text"
    /\ IF extract_actions_panics(content)
       THEN xpc' = "panicked" /\ UNCHANGED <<extracted, actions, pc>>
       ELSE /\ extracted' = extract_actions(content)
            /\ IF extracted'.some /\ extracted'.v # <<>>
               THEN \E resolved \in BOOLEAN :
                       IF ~resolved
                       THEN xpc' = "failed" /\ UNCHANGED <<actions, pc>>
                       ELSE IF auto_apply
                       THEN /\ xpc' = "executing"
                            /\ actions' = extracted'.v
                            /\ pc' = "start"
                       ELSE xpc' = "outer_confirm" /\ UNCHANGED <<actions, pc>>
               ELSE xpc' = "finished" /\ UNCHANGED <<actions, pc>>
    /\ UNCHANGED <<i, total, success_count, fail_count, inflight, calls, log,
                   result, content, auto_apply, guiVars, cliVars>>

\* The replies of the auto-config runs: a plan in a fenced block, a bare
\* plan, or plain talk.
AutoConfigTexts ==
    {<<Tok("prose"), Tok("fence_json"), TokJson(d), Tok("fence")>> : d \in Docs}
        \cup {<<TokJson(d)>> : d \in Docs}
        \cup {<<Tok("prose")>>}

InitAutoConfig ==
    /\ content \in AutoConfigTexts
    /\ xpc = "text"
    /\ auto_apply \in BOOLEAN
    /\ GuiNew
    /\ command = "auto_config"
    /\ domain = TRUE
    /\ extracted = NoExtraction
    /\ actions = <<>>
    /\ pc = "idle"
    /\ i = 0
    /\ total = 0
    /\ success_count = 0
    /\ fail_count = 0
    /\ inflight = NoCall
    /\ calls = <<>>
    /\ log = <<>>
    /\ result = "none"

NextAutoConfig ==
    \/ AutoConfigReply
    \/ OuterConfirm
    \/ ExecuteStart
    \/ BatchConfirm
    \/ HighConfirm
    \/ RemoteReturn
    \/ ContinueConfirm

SpecAutoConfig == InitAutoConfig /\ [][NextAutoConfig]_vars

(***************************************************************************)
(* `cfai ai` with each of its subcommands (ai.rs:59-261), from the reply   *)
(* on: ask only prints; analyze and troubleshoot resolve the zone before   *)
(* they ask the model and hand the actions to prompt_execute_actions;      *)
(* auto-config resolves the zone once it holds a non-empty list.           *)
(***************************************************************************)
Commands == {"ask", "analyze", "troubleshoot", "auto_config"}

\* execute_actions is entered with the list.
Enter(list) ==
    /\ xpc' = "executing"
    /\ actions' = list
    /\ pc' = "start"

\* ai.rs:269-277, prompt_execute_actions up to its prompt.
prompt_execute_actions(list) ==
    IF list = <<>>
    THEN xpc' = "finished" /\ UNCHANGED <<actions, pc>>
    ELSE xpc' = "outer_confirm" /\ UNCHANGED <<actions, pc>>

\* ai.rs:63-257, up to the outer prompt or the entry of execute_actions.
\* resolve_zone_id can fail wherever it is called.
CommandReply ==
    /\ xpc = "text"
    /\ \E resolved \in BOOLEAN :
          IF command \in {"analyze", "troubleshoot"} /\ domain /\ ~resolved
          THEN xpc' = "failed" /\ UNCHANGED <<extracted, actions, pc>>
          ELSE IF extract_actions_panics(content)
          THEN xpc' = "panicked" /\ UNCHANGED <<extracted, actions, pc>>
          ELSE /\ extracted' = extract_actions(content)
               /\ CASE ~extracted'.some \/ command = "ask" ->
                          xpc' = "finished" /\ UNCHANGED <<actions, pc>>
                    [] extracted'.some /\ command = "analyze" ->
                          prompt_execute_actions(extracted'.v)
                    [] extracted'.some /\ command = "troubleshoot" ->
                          IF domain
                          THEN prompt_execute_actions(extracted'.v)
                          ELSE xpc' = "finished" /\ UNCHANGED <<actions, pc>>
                    [] extracted'.some /\ command = "auto_config" ->
                          IF extracted'.v = <<>> \/ ~domain
                          THEN xpc' = "finished" /\ UNCHANGED <<actions, pc>>
                          ELSE IF ~resolved
                          THEN xpc' = "failed" /\ UNCHANGED <<actions, pc>>
                          ELSE IF auto_apply
                          THEN Enter(extracted'.v)
                          ELSE prompt_execute_actions(extracted'.v)
    /\ UNCHANGED <<i, total, success_count, fail_count, inflight, calls, log,
                   result, content, auto_apply, guiVars, cliVars>>

\* analyze takes its domain as a required argument; --auto-apply is a flag
\* of auto-config only.
InitCli ==
    /\ content \in AutoConfigTexts
    /\ xpc = "text"
    /\ command \in Commands
    /\ domain \in BOOLEAN
    /\ command = "analyze" => domain
    /\ command = "ask" => ~domain
    /\ auto_apply \in BOOLEAN
    /\ auto_apply => command = "auto_config"
    /\ GuiNew
    /\ extracted = NoExtraction
    /\ actions = <<>>
    /\ pc = "idle"
    /\ i = 0
    /\ total = 0
    /\ success_count = 0
    /\ fail_count = 0
    /\ inflight = NoCall
    /\ calls = <<>>
    /\ log = <<>>
    /\ result = "none"

NextCli ==
    \/ CommandReply
    \/ OuterConfirm
    \/ ExecuteStart
    \/ BatchConfirm
    \/ HighConfirm
    \/ RemoteReturn
    \/ ContinueConfirm

SpecCli == InitCli /\ [][NextCli]_vars

(***************************************************************************)
(* Reading the text, for the statements about extraction.                  *)
(***************************************************************************)
\* The fenced json blocks of a text: an opening ```json and the next ```.
FencedBlocks(text) ==
    {b \in (DOMAIN text) \X (DOMAIN text) :
        /\ b[1] < b[2]
        /\ text[b[1]].t = "fence_json"
        /\ text[b[2]].t \in {"fence", "fence_json"}
        /\ \A r \in (b[1] + 1)..(b[2] - 1) :
               text[r].t \notin {"fence", "fence_json"}}
FirstBlock(text) ==
    CHOOSE b \in FencedBlocks(text) :
        \A c \in FencedBlocks(text) : b[1] <= c[1]
\* An Action-shaped object and an ActionPlan-shaped document.
ActionShaped(item) ==
    /\ item.k = "obj"
    /\ item.type.k = "str"
    /\ item.description.k = "str"
    /\ item.params.k # "absent"
    /\ item.risk.k = "str"
PlanShaped(doc) ==
    /\ doc.top = "obj"
    /\ \/ doc.actions.k \in {"absent", "null"}
       \/ /\ doc.actions.k = "arr"
          /\ \A j \in DOMAIN doc.actions.items :
                 ActionShaped(doc.actions.items[j])
    /\ doc.explanation.k \in {"absent", "null", "str"}
\* The positions p..q of a text hold one plan document and whitespace.
HoldsPlan(text, p, q) ==
    LET solid == {r \in p..q : text[r].t # "ws"} IN
    /\ Cardinality(solid) = 1
    /\ \A r \in solid : text[r].t = "json" /\ PlanShaped(text[r].doc)
PlanAt(text, p, q) == text[CHOOSE r \in p..q : text[r].t = "json"].doc
BlockHoldsPlan(text, b) == HoldsPlan(text, b[1] + 1, b[2] - 1)
BlockPlan(text, b) == PlanAt(text, b[1] + 1, b[2] - 1)
\* The actions a plan document encodes, in its order.
Encoded(doc) ==
    [j \in DOMAIN doc.actions.items |->
        [action_type |-> doc.actions.items[j].type.s,
         description |-> doc.actions.items[j].description.s,
         params |-> doc.actions.items[j].params,
         risk |-> doc.actions.items[j].risk.s]]
EncodedExplanation(doc) ==
    IF doc.explanation.k = "str" THEN Some(doc.explanation.s) ELSE None("")
ActionsOf(x) == IF x.some THEN x.v ELSE <<>>
Extracted == xpc \notin {"off", "text", "panicked"}

SupportedKinds ==
    {"ssl_set", "setting_update", "dns_create", "dns_update", "dns_delete",
     "cache_purge", "firewall_rule"}
\* An action the dispatch must refuse: an unsupported type token, or an IP
\* block without its ip.
Unsupported(action) == action.action_type \notin SupportedKinds
BlockWithoutIp(action) ==
    /\ action.action_type = "firewall_rule"
    /\ <<"type", JStr("block_ip")>> \in action.params.o
    /\ \A m \in action.params.o : m[1] # "ip"
Refused(action) == Unsupported(action) \/ BlockWithoutIp(action)
\* The action at index k was dispatched: its banner was printed and, if
\* its own confirmation was asked, it was accepted.
Dispatched(k) ==
    /\ Logged(Ev("banner", k, "-"))
    /\ actions[k + 1].risk = "high" => Logged(Ev("prompt_high", k, "yes"))

\* An item with an unsupported type token is in the extracted list, at its
\* place.
C8_KeptByExtraction ==
    (Extracted /\ FencedBlocks(content) # {}
        /\ BlockHoldsPlan(content, FirstBlock(content))) =>
        LET items == BlockPlan(content, FirstBlock(content)).actions.items IN
        /\ Len(ActionsOf(extracted)) = Len(items)
        /\ \A j \in DOMAIN items :
               items[j].type.s \notin SupportedKinds =>
                   extracted.v[j].action_type = items[j].type.s
\* A refused action gets a validation error and no call, and the run goes
\* on as after any failure.
C8_RefusedAtDispatch ==
    \A k \in Indices :
        Refused(actions[k + 1]) =>
            /\ ~Called(k)
            /\ Outcome(k) # "succeeded"
            /\ (Dispatched(k) /\ pc # "high_confirm") =>
                   Logged(Ev("error", k, "validation"))
            /\ \A p \in DOMAIN log :
                   log[p] = Ev("error", k, "validation") =>
                       IF p = Len(log)
                       THEN pc = "continue_confirm" /\ k + 1 < N
                       ELSE log[p + 1].ev =
                                IF k + 1 < N THEN "prompt_continue"
                                             ELSE "summary"
            /\ \A p \in DOMAIN log :
                   (log[p] = Ev("prompt_continue", k, "yes")) =>
                       /\ Len(log) > p
                       /\ log[p + 1] = Ev("banner", k + 1, "-")
            /\ (pc = "done" /\ result = "Err") =>
                   IsPrompt(log[Len(log)]) /\ log[Len(log)].ans = "err"
\* C8: an item with an unsupported type token is kept by extraction at its
\* place; at dispatch it, like an IP block without ip, gets an error
\* Outcome from validation and no client call; the failure does not end the
\* run: the continuation prompt is asked when actions remain, accepting it
\* goes on to the next action, and the run does not return Err because of
\* it.
C8_UnsupportedKindFailsAlone == C8_KeptByExtraction /\ C8_RefusedAtDispatch
C8_Witness ==
    /\ N = 3
    /\ Unsupported(actions[1])
    /\ Logged(Ev("error", 0, "validation"))
    /\ BlockWithoutIp(actions[2])
    /\ Logged(Ev("error", 1, "validation"))
    /\ Logged(Ev("success", 2, "-"))
    /\ Finished

\* C9 as claimed: whenever the text holds a fenced block that is a valid
\* plan, what is returned is that plan's actions, in order and unchanged,
\* and its explanation.
C9_AnyValidFencedBlock ==
    Extracted =>
        \A b \in FencedBlocks(content) :
            BlockHoldsPlan(content, b) =>
                /\ ActionsOf(extracted) = Encoded(BlockPlan(content, b))
                /\ ReturnedExplanation
                     = EncodedExplanation(BlockPlan(content, b))

\* C9 as amended: when the first ```json of the text is closed by a ``` and
\* what lies between them is a valid plan, the actions returned are exactly
\* that plan's, in its order, each with its type, description, params and
\* risk token unchanged (an absent or null actions member giving none); no
\* explanation is returned.
C9_FirstValidFencedBlock ==
    (Extracted /\ FencedBlocks(content) # {}
        /\ BlockHoldsPlan(content, FirstBlock(content))) =>
        LET doc == BlockPlan(content, FirstBlock(content)) IN
        /\ extracted.some <=> doc.actions.k = "arr"
        /\ ActionsOf(extracted) = Encoded(doc)
        /\ ReturnedExplanation = None("")
C9_Witness ==
    /\ Extracted
    /\ FencedBlocks(content) # {}
    /\ BlockHoldsPlan(content, FirstBlock(content))
    /\ BlockPlan(content, FirstBlock(content)) = DocThree
    /\ Len(ActionsOf(extracted)) = 3
    /\ extracted.v[2].risk = "Critical"
    /\ Len(content) = 4

\* C10: when no fenced block of the text and not the whole text is a valid
\* plan, extraction returns no actions (None), and the caller goes on as
\* after any reply without actions.
C10_NoPlanNoActions ==
    (/\ Extracted
     /\ \A b \in FencedBlocks(content) : ~BlockHoldsPlan(content, b)
     /\ ~HoldsPlan(content, 1, Len(content))) =>
        /\ extracted = None(<<>>)
        /\ ActionsOf(extracted) = <<>>
        /\ ReturnedExplanation = None("")
        /\ xpc = "finished"
        /\ pc = "idle"
C10_Witness ==
    /\ Extracted
    /\ Len(content) = 2
    /\ content[1].t = "prose"
    /\ content[2] = TokJson(DocCreate)
    /\ extracted = None(<<>>)
    /\ xpc = "finished"

MemberOf(action, key) ==
    IF \E m \in action.params.o : m[1] = key
    THEN (CHOOSE m \in action.params.o : m[1] = key)[2]
    ELSE JAbsent
\* The action at index k has been through dispatch: it has its call or its
\* error.
Attempted(k) ==
    Called(k) \/ \E p \in DOMAIN log : log[p].ev = "error" /\ log[p].idx = k
CallOf(k) == calls[CHOOSE c \in DOMAIN calls : calls[c].idx = k].call
\* The tokens of the boolean-ish parameter, in the letter cases the model
\* runs.
TrueTokens ==
    {"true", "TRUE", "True", "on", "ON", "On", "yes", "YES", "Yes", "yEs",
     "1"}
FalseTokens ==
    {"false", "FALSE", "False", "off", "OFF", "Off", "oFF", "no", "NO", "No",
     "0"}
\* The actions that read `enable`, and the client method each selects.
ReadsEnable(action) ==
    \/ /\ action.action_type = "ssl_set"
       /\ MemberOf(action, "setting") = JStr("always_https")
    \/ /\ action.action_type = "firewall_rule"
       /\ MemberOf(action, "type") = JStr("under_attack")
EnableMethod(action) ==
    IF action.action_type = "ssl_set" THEN "set_always_https"
    ELSE "set_under_attack_mode"
\* The action at index k called its method with the flag b.
CalledWithFlag(k, b) ==
    /\ Called(k)
    /\ CallOf(k).op = EnableMethod(actions[k + 1])
    /\ CallOf(k).b = b
    /\ ~Logged(Ev("error", k, "validation"))
RefusedByValidation(k) ==
    /\ ~Called(k)
    /\ Logged(Ev("error", k, "validation"))
    /\ Outcome(k) = "failed"

\* C12: for an attempted action that reads `enable`: a literal boolean is
\* passed on as it is; the strings true, on, yes, 1 in any letter case give
\* true and false, off, no, 0 give false; an absent key gives true; any
\* other string is a validation failure without a client call.
C12_EnableIsRead ==
    \A k \in Indices :
        (Attempted(k) /\ ReadsEnable(actions[k + 1])) =>
            LET e == MemberOf(actions[k + 1], "enable") IN
            CASE e.k = "bool" -> CalledWithFlag(k, e.b)
              [] e.k = "absent" -> CalledWithFlag(k, TRUE)
              [] e.k = "str" /\ e.s \in TrueTokens -> CalledWithFlag(k, TRUE)
              [] e.k = "str" /\ e.s \in FalseTokens ->
                    CalledWithFlag(k, FALSE)
              [] e.k = "str" /\ e.s \notin TrueTokens \cup FalseTokens ->
                    RefusedByValidation(k)
              [] OTHER -> TRUE
C12_Witness ==
    /\ N = 2
    /\ actions[1].action_type = "firewall_rule"
    /\ MemberOf(actions[1], "enable") = JStr("oFF")
    /\ CalledWithFlag(0, FALSE)
    /\ Logged(Ev("call_end", 0, "ok"))

\* The risk tokens the executor's list knows.
KnownRisks == {"low", "medium", "high"}
\* What the action at index k goes through before its dispatch is the batch
\* confirmation and nothing of its own: its banner comes after the accepted
\* batch prompt, no confirmation of its own is asked, and right after the
\* banner it is dispatched (its call starts or validation refuses it).
OnlyBatchConfirmed(k) ==
    /\ \A p \in DOMAIN log : log[p].ev = "prompt_high" => log[p].idx # k
    /\ (pc = "high_confirm" => i # k)
    /\ \A p \in DOMAIN log :
           log[p] = Ev("banner", k, "-") =>
               /\ \E b \in 1..(p - 1) : log[b] = Ev("prompt_batch", -1, "yes")
               /\ Len(log) > p
               /\ log[p + 1] \in {Ev("call_start", k, "-"),
                                  Ev("error", k, "validation")}
    /\ Called(k) => BatchAccepted
\* C13: an action whose risk token is not low, medium or high (High
\* included) goes through what a medium action goes through: the batch
\* confirmation, and no confirmation of its own.
C13_UnknownRiskAsMedium ==
    \A k \in Indices :
        (actions[k + 1].risk = "medium" \/ actions[k + 1].risk \notin KnownRisks)
            => OnlyBatchConfirmed(k)
C13_Witness ==
    /\ N = 3
    /\ actions[1].risk = "medium"
    /\ actions[2].risk = "High"
    /\ actions[3].risk = "high"
    /\ Logged(Ev("call_end", 0, "ok"))
    /\ Logged(Ev("call_end", 1, "ok"))
    /\ pc = "high_confirm"

\* A confirmation is being asked or has been asked.
PromptPending == pc \in {"batch_confirm", "high_confirm", "continue_confirm"}
PromptAsked == \E p \in DOMAIN log : IsPrompt(log[p])
\* C14 as claimed: under --auto-apply no confirmation is ever asked, so the
\* run cannot end on a prompt that failed, and once execute_actions has
\* returned every action has been dispatched.
C14_AutoApplyAsksNothing ==
    auto_apply =>
        /\ ~PromptPending
        /\ ~PromptAsked
        /\ result # "Err"
        /\ (xpc = "executing" /\ pc = "done") =>
               \A k \in Indices : Attempted(k)

\* The client methods an action type can select.
MethodsOf(action_type) ==
    CASE action_type = "ssl_set" ->
            {"set_ssl_mode", "set_always_https", "set_ssl_min_tls",
             "set_opportunistic_encryption", "set_automatic_https_rewrites"}
      [] action_type = "setting_update" -> {"update_zone_setting"}
      [] action_type = "dns_create" -> {"create_dns_record"}
      [] action_type = "dns_update" -> {"update_dns_record"}
      [] action_type = "dns_delete" -> {"delete_dns_record"}
      [] action_type = "cache_purge" ->
            {"purge_all_cache", "purge_cache_by_urls", "purge_cache_by_tags",
             "purge_cache_by_hosts"}
      [] action_type = "firewall_rule" ->
            {"block_ip", "whitelist_ip", "set_security_level",
             "set_under_attack_mode", "set_browser_check"}
      [] OTHER -> {}
\* How often ev was logged for index k.
Times(ev, k) ==
    Cardinality({p \in DOMAIN log : log[p].ev = ev /\ log[p].idx = k})
\* C15: in one run every action is taken up at most once (one banner, one
\* confirmation of its own at most), causes at most one client call, a
\* method of its type, and ends at most once; a call that failed is followed
\* by its error line, never by another call for the same action.
C15_AtMostOneCallEach ==
    \A k \in Indices :
        /\ Times("banner", k) <= 1
        /\ Times("prompt_high", k) <= 1
        /\ Times("call_start", k) <= 1
        /\ Times("call_end", k) <= 1
        /\ Times("success", k) + Times("error", k) <= 1
        /\ Cardinality({c \in DOMAIN calls : calls[c].idx = k}) <= 1
        /\ \A c \in DOMAIN calls :
               calls[c].idx = k =>
                   calls[c].call.op \in MethodsOf(actions[k + 1].action_type)
        /\ \A p \in DOMAIN log :
               log[p] = Ev("call_end", k, "fail") =>
                   /\ Len(log) > p
                   /\ log[p + 1] = Ev("error", k, "remote")
                   /\ \A q \in (p + 1)..Len(log) :
                          log[q].ev = "call_start" => log[q].idx > k
C15_Witness ==
    /\ N = 3
    /\ Logged(Ev("call_end", 0, "fail"))
    /\ Logged(Ev("prompt_continue", 0, "yes"))
    /\ Logged(Ev("call_end", 1, "fail"))
    /\ Logged(Ev("call_end", 2, "ok"))
    /\ Len(calls) = 3
    /\ Finished

\* C16: no step of execute_actions changes the action list: every action's
\* type, description, params and risk stay what they were.
C16_ActionsUnchanged ==
    [][/\ Len(actions') = Len(actions)
       /\ \A k \in DOMAIN actions :
              /\ actions'[k].action_type = actions[k].action_type
              /\ actions'[k].description = actions[k].description
              /\ actions'[k].params = actions[k].params
              /\ actions'[k].risk = actions[k].risk]_vars
C16_Witness ==
    /\ N = 3
    /\ actions[1].risk = "High"
    /\ Logged(Ev("call_end", 0, "ok"))
    /\ Logged(Ev("prompt_high", 1, "no"))
    /\ Logged(Ev("error", 2, "validation"))
    /\ Finished

\* The positions of a text that hold a plan document which encodes actions.
PlansIn(text) ==
    {p \in DOMAIN text :
        text[p].t = "json" /\ PlanShaped(text[p].doc)
            /\ text[p].doc.actions.k = "arr"}
\* C17 as claimed: every action returned has a non-empty description.
C17_DescriptionNonEmpty ==
    Extracted =>
        \A j \in DOMAIN ActionsOf(extracted) : extracted.v[j].description # ""

\* C17 as amended: every action returned has as its description the string
\* its item in the plan gives, which may be the empty string: a plan whose
\* item has an empty description is returned like any other.
C17_DescriptionAsEncoded ==
    /\ Extracted =>
           \A j \in DOMAIN ActionsOf(extracted) :
               \E p \in PlansIn(content) :
                   /\ j \in DOMAIN content[p].doc.actions.items
                   /\ content[p].doc.actions.items[j].description
                        = JStr(extracted.v[j].description)
    /\ (Extracted /\ FencedBlocks(content) # {}
           /\ BlockHoldsPlan(content, FirstBlock(content))) =>
           LET items == BlockPlan(content, FirstBlock(content)).actions.items
           IN /\ Len(ActionsOf(extracted)) = Len(items)
              /\ \A j \in DOMAIN items :
                     extracted.v[j].description = items[j].description.s
C17_Witness ==
    /\ xpc = "outer_confirm"
    /\ extracted.some
    /\ Len(extracted.v) = 2
    /\ extracted.v[1].description = ""
    /\ extracted.v[2].description = "drop old record"

\* An action of the catalogue that validation accepts.
WellFormed(action) ==
    action.action_type \in SupportedKinds /\ ~BlockWithoutIp(action)
\* A run on well-formed actions none of which is "high", with the batch
\* confirmation accepted and no client call failed so far.
CleanRun ==
    /\ N > 0
    /\ \A k \in Indices :
           WellFormed(actions[k + 1]) /\ actions[k + 1].risk # "high"
    /\ BatchAccepted
    /\ \A p \in DOMAIN log : log[p].ev = "call_end" => log[p].ans = "ok"
\* C18: in such a run the batch confirmation is the only question, the
\* calls are those of the actions 0, 1, 2, .. in this order, each a method
\* of its action's type (create_dns_record with the record of the params
\* for a dns_create), nothing fails, and when the run is over it has made N
\* calls and its summary counts success = N, fail = 0, total = N, with no
\* action skipped.
C18_CleanRunCallsAllInOrder ==
    CleanRun =>
        /\ pc \notin {"high_confirm", "continue_confirm"}
        /\ Cardinality({p \in DOMAIN log : IsPrompt(log[p])}) = 1
        /\ \A c \in DOMAIN calls :
               /\ calls[c].idx = c - 1
               /\ calls[c].call.op \in MethodsOf(actions[c].action_type)
               /\ actions[c].action_type = "dns_create" =>
                      /\ calls[c].call.op = "create_dns_record"
                      /\ calls[c].call.req.name
                           = MemberOf(actions[c], "name").s
                      /\ calls[c].call.req.content
                           = MemberOf(actions[c], "content").s
        /\ fail_count = 0
        /\ result # "Err"
        /\ pc = "done" =>
               /\ result = "Ok"
               /\ Len(calls) = N
               /\ log[Len(log)] = Ev("summary", -1, "-")
               /\ success_count = N
               /\ total = N
               /\ total - success_count - fail_count = 0
               /\ NumWith("skipped") = 0
               /\ RenderedSkipped = 0
C18_Witness ==
    /\ CleanRun
    /\ N = 3
    /\ actions[1].action_type = "ssl_set"
    /\ actions[2].action_type = "cache_purge"
    /\ actions[3].action_type = "dns_create"
    /\ pc = "done"
    /\ calls[3].call.op = "create_dns_record"
    /\ success_count = 3

\* C19: the continuation prompt is asked exactly after the error of an
\* action that is not the last, whether validation or the client call
\* failed: every continuation prompt follows the error line of its index
\* k with k + 1 < N; every error line is followed by that prompt when
\* k + 1 < N and by the summary when k is the last index; and an accepted
\* prompt is followed by the banner of action k + 1.
C19_ContinueAskedOnFailureOnly ==
    /\ pc = "continue_confirm" =>
           /\ log # <<>>
           /\ log[Len(log)].ev = "error"
           /\ log[Len(log)].idx = i
           /\ i + 1 < N
    /\ \A p \in DOMAIN log :
           log[p].ev = "prompt_continue" =>
               /\ p > 1
               /\ log[p - 1].ev = "error"
               /\ log[p - 1].ans \in {"validation", "remote"}
               /\ log[p - 1].idx = log[p].idx
               /\ log[p].idx + 1 < N
    /\ \A p \in DOMAIN log :
           log[p].ev = "error" =>
               IF log[p].idx + 1 < N
               THEN IF p = Len(log) THEN pc = "continue_confirm"
                    ELSE /\ log[p + 1].ev = "prompt_continue"
                         /\ log[p + 1].idx = log[p].idx
               ELSE /\ Len(log) > p
                    /\ log[p + 1] = Ev("summary", -1, "-")
    /\ \A p \in DOMAIN log :
           log[p].ev \in {"success", "skipped"} =>
               /\ pc = "continue_confirm" => p < Len(log)
               /\ p < Len(log) => log[p + 1].ev # "prompt_continue"
    /\ \A p \in DOMAIN log :
           (log[p].ev = "prompt_continue" /\ log[p].ans = "yes") =>
               /\ Len(log) > p
               /\ log[p + 1] = Ev("banner", log[p].idx + 1, "-")
C19_Witness ==
    /\ N = 3
    /\ Logged(Ev("error", 0, "validation"))
    /\ Logged(Ev("prompt_continue", 0, "yes"))
    /\ Logged(Ev("error", 1, "remote"))
    /\ Logged(Ev("prompt_continue", 1, "yes"))
    /\ Logged(Ev("error", 2, "remote"))
    /\ Finished

\* A cache_purge whose params give no `type` string.
PurgeWithoutType(action) ==
    /\ action.action_type = "cache_purge"
    /\ MemberOf(action, "type").k # "str"
PurgeTypes == {"purge_all", "purge_urls", "purge_tags", "purge_hosts"}
\* C20 as claimed: a cache_purge without `type` is refused by validation and
\* makes no call.
C20_MissingTypeIsRefused ==
    \A k \in Indices :
        (Attempted(k) /\ PurgeWithoutType(actions[k + 1])
            /\ MemberOf(actions[k + 1], "type") = JAbsent) =>
            RefusedByValidation(k)

\* C20 as amended: a cache_purge whose params give no `type` string is run
\* as purge_all: the purge of the whole cache is called and validation
\* refuses nothing; a `type` string that is none of the four tokens is
\* refused by validation without a call.
C20_MissingTypePurgesAll ==
    \A k \in Indices :
        (Attempted(k) /\ actions[k + 1].action_type = "cache_purge") =>
            LET type == MemberOf(actions[k + 1], "type") IN
            /\ type.k # "str" =>
                   /\ Called(k)
                   /\ CallOf(k).op = "purge_all_cache"
                   /\ ~Logged(Ev("error", k, "validation"))
            /\ (type.k = "str" /\ type.s \notin PurgeTypes) =>
                   RefusedByValidation(k)
C20_Witness ==
    /\ N = 2
    /\ MemberOf(actions[1], "type") = JAbsent
    /\ actions[1].action_type = "cache_purge"
    /\ actions[1].params.k = "obj"
    /\ Called(0)
    /\ CallOf(0).op = "purge_all_cache"
    /\ Logged(Ev("success", 0, "-"))

\* The client methods that write a DNS record.
IsDnsWrite(action) == action.action_type \in {"dns_create", "dns_update"}
DnsMethod(action) ==
    IF action.action_type = "dns_create" THEN "create_dns_record"
    ELSE "update_dns_record"
\* A ttl that is there but is no non-negative integer.
WrongShapeTtl(action) ==
    MemberOf(action, "ttl").k \in {"str", "neg", "frac", "bool", "null", "arr"}
\* C21 as claimed: a DNS create or update whose ttl has the wrong shape is
\* refused by validation and makes no call.
C21_WrongShapeIsRefused ==
    \A k \in Indices :
        (Attempted(k) /\ IsDnsWrite(actions[k + 1])
            /\ WrongShapeTtl(actions[k + 1])) => RefusedByValidation(k)

\* C21 as amended: a DNS create or update that has its required keys and
\* whose ttl has the wrong shape is not refused: its client call is issued,
\* with the ttl left out of the request and the other fields as given.
C21_WrongShapeIsDropped ==
    \A k \in Indices :
        (Attempted(k) /\ IsDnsWrite(actions[k + 1])
            /\ WrongShapeTtl(actions[k + 1])) =>
            /\ Called(k)
            /\ ~Logged(Ev("error", k, "validation"))
            /\ CallOf(k).op = DnsMethod(actions[k + 1])
            /\ ~CallOf(k).req.ttl.some
            /\ CallOf(k).req.name = MemberOf(actions[k + 1], "name").s
            /\ CallOf(k).req.content = MemberOf(actions[k + 1], "content").s
C21_Witness ==
    /\ N = 2
    /\ actions[1].action_type = "dns_create"
    /\ MemberOf(actions[1], "ttl") = JStr("300")
    /\ MemberOf(actions[1], "priority") = JNum(10)
    /\ Called(0)
    /\ ~CallOf(0).req.ttl.some
    /\ Logged(Ev("success", 0, "-"))

\* C22: of several fenced blocks only the first counts: when it holds a
\* plan, that plan's actions are returned whatever the later blocks hold;
\* when it does not, nothing is returned (the whole text, which holds a
\* fence, is no JSON document), also when a later block or the text after
\* the first block is a valid plan.
C22_OnlyFirstBlock ==
    (Extracted /\ FencedBlocks(content) # {}) =>
        LET first == FirstBlock(content) IN
        IF BlockHoldsPlan(content, first)
        THEN ActionsOf(extracted) = Encoded(BlockPlan(content, first))
        ELSE /\ extracted = None(<<>>)
             /\ xpc = "finished"
             /\ pc = "idle"
C22_Witness ==
    /\ Extracted
    /\ Len(content) = 4
    /\ content[1].t = "fence_json"
    /\ content[2].t = "fence_json"
    /\ content[3] = TokJson(DocCreate)
    /\ content[4].t = "fence"
    /\ Cardinality(FencedBlocks(content)) = 2
    /\ \E b \in FencedBlocks(content) : BlockHoldsPlan(content, b)
    /\ extracted = None(<<>>)

\* C23: on an empty list nothing is printed, asked or called and the run
\* returns Ok; the batch confirmation is asked at most once in a run, only
\* for a non-empty list, and a run on a non-empty list that got past it has
\* asked it exactly once.
C23_EmptyListStaysIdle ==
    /\ N = 0 =>
           /\ pc \in {"idle", "start", "done"}
           /\ log = <<>>
           /\ calls = <<>>
           /\ inflight = NoCall
           /\ result # "Err"
           /\ pc = "done" => result = "Ok"
    /\ Times("prompt_batch", -1) <= 1
    /\ pc = "batch_confirm" => (N > 0 /\ Times("prompt_batch", -1) = 0)
    /\ (N > 0 /\ pc \notin {"idle", "start", "batch_confirm"}) =>
           Times("prompt_batch", -1) = 1
C23_Witness == N = 0 /\ pc = "done" /\ result = "Ok" /\ xpc = "off"

(***************************************************************************)
(* The desktop front end (src/gui).  One frame of the UI thread is one     *)
(* step: update() drains the channel, handles at most one input, starts    *)
(* the first-frame loads and enters the page when the sidebar changed.     *)
(* Every spawned task is one step of its own: it finishes its request and  *)
(* sends the result.  Tasks in flight finish in any order; the tasks in    *)
(* flight are a bag, two loads of the same zone being two tasks.           *)
(***************************************************************************)
\* The zones of the account, in the order list_zones returns them.
Zones == <<"zoneA", "zoneB">>
ZoneIds == {Zones[k] : k \in DOMAIN Zones}

\* gui/state.rs:66-79; the pages whose loads are modelled.
Pages == {"Dashboard", "Dns", "AiAssistant"}

\* The number of tasks spawned in a run.
MaxTasks == 4

\* gui/state.rs:17-64: the variants the modelled pages produce, with the
\* payload reduced to what identifies it: the zone whose records were
\* listed, the user message a reply answers.
AsyncResult(kind, ok, arg) == [kind |-> kind, ok |-> ok, arg |-> arg]

\* The working copy of AppState one frame reads and writes.
Gui ==
    [loading |-> loading, current_page |-> current_page,
     selected_zone |-> selected_zone, zones |-> zones,
     zones_loaded |-> zones_loaded, dns_records |-> dns_records,
     ai_messages |-> ai_messages, tasks |-> tasks, rx |-> rx,
     spawned |-> spawned, drained |-> drained, page_changed |-> FALSE]

ApplyGui(g) ==
    /\ loading' = g.loading
    /\ current_page' = g.current_page
    /\ selected_zone' = g.selected_zone
    /\ zones' = g.zones
    /\ zones_loaded' = g.zones_loaded
    /\ dns_records' = g.dns_records
    /\ ai_messages' = g.ai_messages
    /\ tasks' = g.tasks
    /\ rx' = g.rx
    /\ spawned' = g.spawned
    /\ drained' = g.drained

set_loading(g) == [g EXCEPT !.loading = TRUE]

clear_loading(g) == [g EXCEPT !.loading = FALSE]

\* async_bridge.rs:7-23: the task owns a clone of the sender and what its
\* closure captured; nothing of AppState.
spawn_async(g, kind, arg) ==
    [g EXCEPT !.spawned = @ + 1,
              !.tasks = @ (+) SetToBag({[kind |-> kind, arg |-> arg]})]

load_zones(g) == spawn_async(set_loading(g), "ZonesLoaded", "none")

load_dns(g, zone_id) == spawn_async(set_loading(g), "DnsRecordsLoaded", zone_id)

UserMessages(messages) ==
    {k \in DOMAIN messages : messages[k].role = "user"}

AiChatMessage(role, n, err) == [role |-> role, n |-> n, err |-> err]

\* The n-th message the user sends is message n; its reply is a reply to n.
send_ai_message(g) ==
    LET n == Cardinality(UserMessages(g.ai_messages)) + 1
    IN spawn_async(
           set_loading([g EXCEPT !.ai_messages =
                            Append(@, AiChatMessage("user", n, FALSE))]),
           "AiResponse", n)

\* The body of the drain loop for one received result.
drain_one(g, r) ==
    LET c == [clear_loading(g) EXCEPT !.drained = @ + 1]
    IN CASE r.kind = "ZonesLoaded" /\ r.ok ->
                [c EXCEPT !.zones = Zones,
                          !.selected_zone =
                              IF @ = "none" THEN Zones[1] ELSE @]
         [] r.kind = "DnsRecordsLoaded" /\ r.ok ->
                [c EXCEPT !.dns_records = r.arg]
         [] r.kind = "AiResponse" ->
                [c EXCEPT !.ai_messages =
                     Append(@, AiChatMessage("assistant", r.arg, ~r.ok))]
         [] OTHER -> c

RECURSIVE DrainFrom(_, _)
DrainFrom(g, queue) ==
    IF queue = <<>> THEN g
    ELSE DrainFrom(drain_one(g, Head(queue)), Tail(queue))

drain_results(g) == DrainFrom([g EXCEPT !.rx = <<>>], g.rx)

Input(kind, arg) == [kind |-> kind, arg |-> arg]

\* What the user can do in one frame: nothing, a page of the sidebar, a zone
\* of the zone selector, the dashboard's Select, the DNS page's Refresh, the
\* assistant's Send.
Inputs ==
    {Input("none", "none"), Input("refresh", "none"), Input("send", "none")}
        \cup {Input("page", p) : p \in Pages}
        \cup {Input("zone", z) : z \in ZoneIds}
        \cup {Input("select", z) : z \in ZoneIds}

Listed(g) == {g.zones[k] : k \in DOMAIN g.zones}

\* The widget the input needs is on screen.
Offered(g, input) ==
    CASE input.kind = "zone" -> input.arg \in Listed(g)
      [] input.kind = "select" ->
            g.current_page = "Dashboard" /\ input.arg \in Listed(g)
      [] input.kind = "refresh" ->
            g.current_page = "Dns" /\ g.selected_zone # "none"
      [] input.kind = "send" -> g.current_page = "AiAssistant"
      [] OTHER -> TRUE

render_sidebar(g, input) ==
    CASE input.kind = "page" /\ input.arg # g.current_page ->
            [g EXCEPT !.current_page = input.arg, !.page_changed = TRUE]
      [] input.kind = "zone" /\ input.arg # g.selected_zone ->
            [g EXCEPT !.selected_zone = input.arg, !.page_changed = TRUE]
      [] OTHER -> g

\* The central panel: the current page's own buttons.
render_page(g, input) ==
    CASE input.kind = "select" -> [g EXCEPT !.selected_zone = input.arg]
      [] input.kind = "refresh" -> load_dns(g, g.selected_zone)
      [] input.kind = "send" -> send_ai_message(g)
      [] OTHER -> g

\* A client is configured: the first frame loads the zones and verifies the
\* token.
first_frame(g) ==
    IF ~g.zones_loaded
    THEN spawn_async(load_zones([g EXCEPT !.zones_loaded = TRUE]),
                     "TokenVerified", "none")
    ELSE g

on_page_enter(g) ==
    CASE g.current_page = "Dashboard" -> load_zones(g)
      [] g.current_page = "Dns" /\ g.selected_zone # "none" ->
            load_dns(g, g.selected_zone)
      [] OTHER -> g

update(g, input) ==
    LET rendered == first_frame(render_page(render_sidebar(g, input), input))
    IN IF rendered.page_changed THEN on_page_enter(rendered) ELSE rendered

\* One frame of the UI thread.
Update ==
    /\ \E input \in Inputs :
          LET received == drain_results(Gui)
          IN /\ Offered(received, input)
             /\ update(received, input).spawned <= MaxTasks
             /\ ApplyGui(update(received, input))
    /\ UNCHANGED <<execVars, extractVars, cliVars>>

\* A task that would send its result and then send it again.
Sent_twice(t, ok) ==
    <<AsyncResult(t.kind, ok, t.arg), AsyncResult(t.kind, ok, t.arg)>>

\* What a finished task sends: the request succeeded or failed.
Sent(t, ok) == <<AsyncResult(t.kind, ok, t.arg)>>

\* A task of the runtime finishes its request and sends.
TaskComplete ==
    /\ \E t \in BagToSet(tasks), ok \in BOOLEAN :
          /\ rx' = rx \o Sent(t, ok)
          /\ tasks' = tasks (-) SetToBag({t})
    /\ UNCHANGED <<loading, current_page, selected_zone, zones, zones_loaded,
                   dns_records, ai_messages, spawned, drained>>
    /\ UNCHANGED <<execVars, extractVars, cliVars>>

InitGui ==
    /\ GuiNew
    /\ command = "none"
    /\ domain = FALSE
    /\ actions = <<>>
    /\ pc = "idle"
    /\ i = 0
    /\ total = 0
    /\ success_count = 0
    /\ fail_count = 0
    /\ inflight = NoCall
    /\ calls = <<>>
    /\ log = <<>>
    /\ result = "none"
    /\ content = <<>>
    /\ extracted = NoExtraction
    /\ xpc = "off"
    /\ auto_apply = FALSE

NextGui ==
    \/ Update
    \/ TaskComplete

SpecGui == InitGui /\ [][NextGui]_vars

(***************************************************************************)
(* The front end's runs, read from the state.                              *)
(***************************************************************************)
\* The fields of AppState that results are written to.
ResultFields == <<zones, dns_records, ai_messages>>

\* Every task spawned so far is in flight, or its one result is queued, or
\* its one result was received.
OneResultEach == spawned = BagCardinality(tasks) + Len(rx) + drained

\* The senders live at once: one clone per task in flight.
Producers == BagCardinality(tasks)

AssistantMessages(messages) ==
    {k \in DOMAIN messages : messages[k].role = "assistant"}

\* A step in which a task sends leaves AppState alone, the fields results
\* are written to change only in a step that receives, and the loading flag
\* falls only in a step that receives.
ThroughChannelStep ==
    /\ OneResultEach'
    /\ Len(rx') > Len(rx) =>
          UNCHANGED <<loading, current_page, selected_zone, zones,
                      zones_loaded, dns_records, ai_messages, spawned, drained>>
    /\ (zones' # zones \/ dns_records' # dns_records) => drained' > drained
    /\ AssistantMessages(ai_messages') # AssistantMessages(ai_messages)
          => drained' > drained
    /\ drained' > drained => rx' = <<>> /\ drained' = drained + Len(rx)

\* C24 as claimed: every task's one result reaches AppState only through the
\* channel, received in drain_results, and the channel never has more than
\* one producer.
C24_SingleProducerChannel ==
    [][ThroughChannelStep /\ Producers' <= 1]_vars

\* C24: every spawned task sends exactly one AsyncResult, a sending step
\* leaves AppState unchanged, the fields results are written to change only
\* in the frame's drain, which receives all that is queued; the channel has
\* one consumer and one producer per task in flight.
C24_ResultsOnlyThroughChannel == [][ThroughChannelStep]_vars

C24_Witness ==
    /\ drained >= 2
    /\ dns_records # "none"
    /\ Producers >= 1
    /\ rx # <<>>

\* C25: for an attempted action that reads `enable`: a value that is
\* present and is neither a boolean nor a string (a number, null, an array,
\* an object) is read as true and the toggle is called with true; the
\* reading fails only for a string that is none of the eight tokens.
C25_OtherShapesReadAsTrue ==
    \A k \in Indices :
        (Attempted(k) /\ ReadsEnable(actions[k + 1])) =>
            LET e == MemberOf(actions[k + 1], "enable") IN
            /\ e.k \notin {"bool", "str", "absent"} => CalledWithFlag(k, TRUE)
            /\ Logged(Ev("error", k, "validation")) =>
                  e.k = "str" /\ e.s \notin TrueTokens \cup FalseTokens
C25_Witness ==
    /\ N = 1
    /\ actions[1].action_type = "firewall_rule"
    /\ MemberOf(actions[1], "enable") = JNum(0)
    /\ CalledWithFlag(0, TRUE)
    /\ Logged(Ev("call_end", 0, "ok"))

\* A step of a run without --auto-apply: the executor is entered only from
\* the pending outer prompt, a call is issued only after the batch
\* confirmation was accepted, and an outer prompt that ends otherwise than
\* accepted leaves the executor where it was.
GatedStep ==
    /\ pc' # "idle" =>
          xpc' = "executing" /\ command # "ask" /\ domain
    /\ (pc = "idle" /\ pc' # "idle" /\ ~auto_apply) => xpc = "outer_confirm"
    /\ (calls' # <<>> /\ ~auto_apply) => BatchAccepted'
    /\ (xpc = "outer_confirm" /\ xpc' # "executing") =>
          pc' = "idle" /\ calls' = <<>>
    /\ xpc \in {"finished", "failed", "panicked"} => xpc' = xpc

\* C26: on analyze, troubleshoot and auto-config without --auto-apply a
\* client call is issued only after the outer prompt and then the batch
\* confirmation were accepted; declining the outer prompt never enters
\* execute_actions; under ask, or without a domain that resolved to a
\* zone, execute_actions is never entered.
C26_TwoPromptsBeforeAnyCall == [][GatedStep]_vars
C26_Witness ==
    /\ command = "troubleshoot"
    /\ domain
    /\ ~auto_apply
    /\ xpc = "executing"
    /\ BatchAccepted
    /\ calls # <<>>

\* The results whose tasks are started with set_loading: every modelled one
\* but the first frame's token check.
WithIndicator == {"ZonesLoaded", "DnsRecordsLoaded", "AiResponse"}

\* A task started with set_loading whose result was not yet received: it
\* runs, or its result waits in the channel.
IndicatedPending ==
    \/ \E t \in BagToSet(tasks) : t.kind \in WithIndicator
    \/ \E k \in DOMAIN rx : rx[k].kind \in WithIndicator

\* C27: while a task started with set_loading and spawn_async has not had
\* its result drained, loading is TRUE; it is FALSE only when no such task
\* remains.
C27_LoadingWhilePending == IndicatedPending => loading

\* A task of the given kind and payload runs, or its result waits in the
\* channel.
Pending(kind, arg) ==
    \/ \E t \in BagToSet(tasks) : t.kind = kind /\ t.arg = arg
    \/ \E k \in DOMAIN rx : rx[k].kind = kind /\ rx[k].arg = arg

DnsLoadPending == \E z \in ZoneIds : Pending("DnsRecordsLoaded", z)

\* The list is replaced only by the records of the zone selected when the
\* result is received, and on the DNS page with no load pending the list
\* that was loaded is the selected zone's.
RecordsFollowSelection ==
    /\ dns_records' # dns_records => dns_records' = selected_zone
    /\ (current_page' = "Dns" /\ ~DnsLoadPending' /\ dns_records' # "none")
          => dns_records' = selected_zone'

\* C28: once no DNS load is in flight, dns_records holds the records of the
\* selected zone, and the result of a load requested for a zone that is no
\* longer selected never replaces the list, in whatever order overlapping
\* loads complete.
C28_RecordsOfSelectedZone == [][RecordsFollowSelection]_vars

RepliesTo(n) ==
    {a \in AssistantMessages(ai_messages) : ai_messages[a].n = n}

\* C29: every user message has at most one assistant message, after it,
\* and exactly one once its task's result was received; the assistant
\* messages stand in the order of the user messages they answer, also when
\* a message is sent before the reply to the one before it arrived.
C29_OneReplyEachInOrder ==
    /\ \A u \in UserMessages(ai_messages) :
          LET n == ai_messages[u].n IN
          /\ Cardinality(RepliesTo(n)) <= 1
          /\ \A a \in RepliesTo(n) : a > u
          /\ Pending("AiResponse", n) \/ Cardinality(RepliesTo(n)) = 1
    /\ \A a, b \in AssistantMessages(ai_messages) :
          a < b => ai_messages[a].n < ai_messages[b].n

\* The number sent, widened back to the four words of the parameter.
Widen(sent) == sent \o [k \in 1..(4 - Len(sent)) |-> 0]

\* sent is n modulo 2^(16 * width): n is sent plus a multiple of that power,
\* the multiple being n's words above the width.
TruncatedTo(sent, n, width) ==
    /\ Len(sent) = width
    /\ \A k \in 1..width : sent[k] \in 0..(Word - 1)
    /\ n = sent \o SubSeq(n, width + 1, 4)

\* What the request carries for an optional number read from the member e,
\* kept to width words.
SentAsCast(field, e, width) ==
    IF e.k = "num"
    THEN /\ field.some
         /\ TruncatedTo(field.v, e.n, width)
         /\ (Widen(field.v) = e.n) <=>
                (\A k \in (width + 1)..4 : e.n[k] = 0)
    ELSE ~field.some

\* C30: a DNS create or update that is called sends a non-negative integer
\* ttl modulo 2^32 and a non-negative integer priority modulo 2^16, without
\* a failure; a negative, fractional, non-numeric or missing one is sent as
\* absent; what is sent equals the parameter exactly when the ttl is below
\* 2^32 and the priority below 2^16.
C30_NumbersTruncated ==
    \A k \in Indices :
        (Attempted(k) /\ IsDnsWrite(actions[k + 1])) =>
            /\ Called(k)
            /\ ~Logged(Ev("error", k, "validation"))
            /\ SentAsCast(CallOf(k).req.ttl,
                          MemberOf(actions[k + 1], "ttl"), 2)
            /\ SentAsCast(CallOf(k).req.priority,
                          MemberOf(actions[k + 1], "priority"), 1)
C30_Witness ==
    /\ N = 1
    /\ actions[1].action_type = "dns_update"
    /\ MemberOf(actions[1], "ttl") = JBig(<<1, 0, 1, 0>>)
    /\ MemberOf(actions[1], "priority") = JNum(Word + 10)
    /\ Called(0)
    /\ CallOf(0).req.ttl = Some(<<1, 0>>)
    /\ CallOf(0).req.priority = Some(<<10>>)
    /\ Logged(Ev("call_end", 0, "ok"))


=============================================================================
